---- MODULE Spec2Model ----
(***************************************************************************)
(* Objective-and-gradient drivers of 'chain' training                      *)
(* (chain/chain-training.cc): ComputeChainObjfAndDeriv with its e2e        *)
(* variant, ComputeKLObjfAndDeriv and ComputeChainSmbrObjfAndDeriv.        *)
(*                                                                         *)
(* BaseFloat values are modelled as integers extended with NaN and the two *)
(* infinities; rounding is not modelled.  The numerator and denominator    *)
(* forward-backward objects live in other files, so what they return in a  *)
(* call is an input of the call (the record fb).                           *)
(***************************************************************************)
EXTENDS Integers, Sequences, FiniteSets

\* ------------------------------------------------------------- bounds
MaxWeight == 2   \* supervision.weight ranges over 1..MaxWeight
MaxSeq == 2      \* supervision.num_sequences ranges over 1..MaxSeq
MaxFrames == 2   \* supervision.frames_per_sequence ranges over 1..MaxFrames
NumPdfs == 3     \* columns of nnet_output (den_graph.NumPdfs())
MaxVal == 2      \* matrix entries given by the caller range over 0..MaxVal
MaxMinibatches == 2   \* num_minibatches_processed_ ranges over 0..MaxMinibatches

\* ---------------------------------------------------------- BaseFloat
Fin(n) == [k |-> "fin", v |-> n]
NaN == [k |-> "nan", v |-> 0]
PosInf == [k |-> "inf", v |-> 1]
NegInf == [k |-> "inf", v |-> -1]
\* an out-parameter the callee has not written
Unset == [k |-> "unset", v |-> 0]

Sign(n) == IF n > 0 THEN 1 ELSE IF n < 0 THEN -1 ELSE 0

FNeg(a) == IF a.k = "nan" THEN NaN ELSE [k |-> a.k, v |-> -a.v]

FAdd(a, b) ==
  IF a.k = "nan" \/ b.k = "nan" THEN NaN
  ELSE IF a.k = "fin" /\ b.k = "fin" THEN Fin(a.v + b.v)
  ELSE IF a.k = "inf" /\ b.k = "inf" THEN (IF a.v = b.v THEN a ELSE NaN)
  ELSE IF a.k = "inf" THEN a ELSE b

FSub(a, b) == FAdd(a, FNeg(b))

FMul(a, b) ==
  IF a.k = "nan" \/ b.k = "nan" THEN NaN
  ELSE IF a.k = "fin" /\ b.k = "fin" THEN Fin(a.v * b.v)
  ELSE IF Sign(a.v) * Sign(b.v) = 0 THEN NaN
  ELSE [k |-> "inf", v |-> Sign(a.v) * Sign(b.v)]

\* the drivers' finiteness test, (x - x == 0)
MinusSelfIsZero(x) == FSub(x, x) = Fin(0)

\* ----------------------------------------------------------- matrices
\* rows and columns are numbered from 0, as in the code
Cells(r, c) == (0..(r - 1)) \X (0..(c - 1))
Zeros(r, c) == [nr |-> r, nc |-> c, e |-> [p \in Cells(r, c) |-> 0]]
\* a NULL matrix pointer, and the empty CuMatrix
NoMatrix == Zeros(0, 0)
SameDim(A, B) == A.nr = B.nr /\ A.nc = B.nc
IsZero(M) == \A p \in DOMAIN M.e : M.e[p] = 0

RECURSIVE SumOver(_, _)
SumOver(f, S) ==
  IF S = {} THEN 0
  ELSE LET x == CHOOSE y \in S : TRUE IN f[x] + SumOver(f, S \ {x})

SetZero(M) == Zeros(M.nr, M.nc)
\* Resize(rows, cols, kSetZero, ...)
Resize(M, r, c) == Zeros(r, c)
\* M->AddMat(alpha, A)
AddMat(M, alpha, A) == [M EXCEPT !.e = [p \in DOMAIN M.e |-> M.e[p] + alpha * A.e[p]]]
Scale(M, alpha) == [M EXCEPT !.e = [p \in DOMAIN M.e |-> alpha * M.e[p]]]
\* M->CopyFromMat(A): the dimensions must agree
CopyFromMat(M, A) == [M EXCEPT !.e = [p \in DOMAIN M.e |-> A.e[p]]]
\* TraceMatMat(A, B, kTrans) = sum_ij A(i,j) B(i,j)
TraceMatMat(A, B) == SumOver([p \in DOMAIN A.e |-> A.e[p] * B.e[p]], DOMAIN A.e)
Sum(M) == SumOver(M.e, DOMAIN M.e)
\* M->CopyCols(src, indices): column i of M becomes column indices[i] of src,
\* or zero where indices[i] is -1
CopyCols(M, src, indices) ==
  [M EXCEPT !.e = [p \in DOMAIN M.e |->
     IF indices[p[2]] < 0 THEN 0 ELSE src.e[<<p[1], indices[p[2]]>>]]]
\* v.AddColSumMat(1.0, M, 0.0): the row sums of M
RowSums(M) == [r \in 0..(M.nr - 1) |->
                 SumOver([q \in DOMAIN M.e |-> IF q[1] = r THEN M.e[q] ELSE 0], DOMAIN M.e)]
\* M->CopyColsFromVec(v, indices): every column i with indices[i] >= 0 becomes v
CopyColsFromVec(M, v, indices) ==
  [M EXCEPT !.e = [p \in DOMAIN M.e |->
     IF indices[p[2]] < 0 THEN M.e[p] ELSE v[p[1]]]]
\* exp() on the integer grid: base 2 stands for base e
Exp(x) == 2 ^ x
ApplyExp(M) == [M EXCEPT !.e = [p \in DOMAIN M.e |-> Exp(M.e[p])]]

\* --------------------------------- the forward-backward objects' results
\* DenominatorComputation::Forward()
DenForward(fb) == fb.den_logprob
\* DenominatorComputation::Backward(deriv_weight, nnet_output_deriv): adds
\* deriv_weight times the denominator posterior and returns fb.den_ok
DenBackward(fb, deriv_weight, M) == AddMat(M, deriv_weight, fb.den_post)
\* NumeratorComputation::Forward() and GenericNumeratorComputation::Forward():
\* the log-likelihood, supervision.weight included
NumForward(fb) == fb.num_logprob
\* NumeratorComputation::Backward(deriv) and the generic one: add the
\* posterior, supervision.weight included; the generic one returns
\* fb.num_back_ok
NumBackward(fb, M) == AddMat(M, 1, fb.num_post)
\* DenominatorSmbrComputation::BackwardSmbr(deriv_weight, nnet_output_deriv)
BackwardSmbr(fb, deriv_weight, M) == AddMat(M, deriv_weight, fb.smbr_post)

\* ------------------------------------------------------------ drivers
\* What a driver leaves behind: the out-parameters and the two buffers, plus
\* history: the values just before and just after the failure branch, whether
\* that branch ran, the accuracy matrix given to the SMBR denominator and the
\* order of the forward-backward steps.
Snapshot(o, m, d, x) == [objf |-> o, mmi_objf |-> m, deriv |-> d, xent |-> x]
Ret(o, m, l2, w, d, x, f, nok, before, after, acc, tr) ==
  [objf |-> o, mmi_objf |-> m, l2_term |-> l2, weight |-> w, deriv |-> d,
   xent |-> x, failed |-> f, numerator_ok |-> nok, at_check |-> before,
   after_check |-> after, accuracy |-> acc, trace |-> tr]

\* (mutant) the frame count is left out of the weight
WeightWithoutFrames(sup) == Fin(sup.weight * sup.num_sequences)
\* *weight = supervision.weight * supervision.num_sequences *
\*           supervision.frames_per_sequence
SupervisionWeight(sup) == Fin(sup.weight * sup.num_sequences * sup.frames_per_sequence)

\* (mutant) the derivative is not zeroed on entry
DerivKeptOnEntry(c) == c.deriv
\* if (nnet_output_deriv != NULL) nnet_output_deriv->SetZero();
DerivZeroedOnEntry(c) == IF c.deriv_given THEN SetZero(c.deriv) ELSE c.deriv

\* the denominator block: Forward, and Backward into the derivative when given
DenLogprobWeighted(c) == FMul(Fin(c.supervision.weight), DenForward(c.fb))
DenBackwardOk(c) == IF c.deriv_given THEN c.fb.den_ok ELSE TRUE
DerivAfterDenominator(c, d) ==
  IF c.deriv_given THEN DenBackward(c.fb, -c.supervision.weight, d) ELSE d

\* (mutant) xent_output_deriv is used as it came
XentNotResized(c) == c.xent
\* xent_output_deriv->Resize(nnet_output.NumRows(), nnet_output.NumCols(), kSetZero, ...)
XentResized(c) ==
  IF c.xent_given THEN Resize(c.xent, c.nnet_output.nr, c.nnet_output.nc) ELSE c.xent

\* (mutant) the denominator term is added instead of subtracted
ObjfValueSum(num_logprob_weighted, den_logprob_weighted) ==
  FAdd(num_logprob_weighted, den_logprob_weighted)
\* *objf = num_logprob_weighted - den_logprob_weighted
ObjfValue(num_logprob_weighted, den_logprob_weighted) ==
  FSub(num_logprob_weighted, den_logprob_weighted)

\* (mutant) the result of Backward is not looked at
FailureTestIgnoringOk(objf0, ok) == ~MinusSelfIsZero(objf0)
\* if (!((*objf) - (*objf) == 0) || !ok)
FailureTest(objf0, ok) == ~MinusSelfIsZero(objf0) \/ ~ok

\* default_objf = -10; *objf = default_objf * *weight
DefaultObjf(weight) == FMul(Fin(-10), weight)

\* (mutant) the failure branch leaves the buffers as they are
KeptOnFailure(fail, given, M) == M
ZeroedOnFailure(fail, given, M) == IF fail /\ given THEN SetZero(M) ELSE M

\* scale = supervision.weight * opts.l2_regularize
L2Scale(c) == c.supervision.weight * c.opts.l2_regularize
\* -0.5 * scale * TraceMatMat(nnet_output, nnet_output, kTrans)
SquaredL2Term(c) ==
  Fin(-((L2Scale(c) * TraceMatMat(c.nnet_output, c.nnet_output)) \div 2))
\* (mutant) the MMI drivers switch to the penalty on exp(X) under norm_regularize
NormAwareL2Term(c) ==
  IF c.opts.l2_regularize = 0 THEN Fin(0)
  ELSE IF ~c.opts.norm_regularize THEN SquaredL2Term(c)
  ELSE Fin(-L2Scale(c) * Sum(ApplyExp(c.nnet_output)))
\* (mutant) supervision.weight is left out of the derivative's scale
L2DerivUnweighted(c, d) ==
  IF c.opts.l2_regularize # 0 /\ c.deriv_given
  THEN AddMat(d, -c.opts.l2_regularize, c.nnet_output)
  ELSE d
\* the regulariser of ComputeChainObjfAndDeriv and ComputeKLObjfAndDeriv
ChainL2Term(c) == IF c.opts.l2_regularize = 0 THEN Fin(0) ELSE SquaredL2Term(c)
ChainL2Deriv(c, d) ==
  IF c.opts.l2_regularize # 0 /\ c.deriv_given THEN AddMat(d, -L2Scale(c), c.nnet_output)
  ELSE d

\* the order of the steps of the three MMI drivers
DenSteps(c) == <<"den.ctor", "den.Forward">>
                 \o (IF c.deriv_given THEN <<"den.Backward">> ELSE <<>>)
                 \o <<"den.dtor">>
XentResizeStep(c) == IF c.xent_given THEN <<"xent.Resize">> ELSE <<>>
NumSteps(backward) == <<"num.ctor", "num.Forward">>
                        \o (IF backward THEN <<"num.Backward">> ELSE <<>>)
                        \o <<"num.dtor">>
\* (mutant) the numerator block comes first
NumeratorFirstSteps(c, backward) == NumSteps(backward) \o DenSteps(c) \o XentResizeStep(c)
ChainSteps(c, backward) == DenSteps(c) \o XentResizeStep(c) \o NumSteps(backward)
KLSteps(c) == DenSteps(c) \o XentResizeStep(c)

\* (mutant) the regulariser of the e2e path runs whatever numerator_ok is
E2eRegularisedAlways(c, numerator_ok) == c.opts.l2_regularize # 0
\* if (opts.l2_regularize != 0.0 && numerator_ok)
E2eRegularised(c, numerator_ok) == c.opts.l2_regularize # 0 /\ numerator_ok

ComputeChainObjfAndDerivE2e(c) ==
  LET sup == c.supervision
      X == c.nnet_output
      weight == SupervisionWeight(sup)
      d0 == DerivZeroedOnEntry(c)
      den_logprob_weighted == DenLogprobWeighted(c)
      denominator_ok == DenBackwardOk(c)
      d1 == DerivAfterDenominator(c, d0)
      x1 == XentResized(c)
      num_logprob_weighted == NumForward(c.fb)
      forward_ok == MinusSelfIsZero(num_logprob_weighted)
      to_xent == c.xent_given /\ forward_ok
      to_deriv == ~to_xent /\ c.deriv_given /\ forward_ok
      numerator_ok == IF to_xent \/ to_deriv THEN c.fb.num_back_ok ELSE forward_ok
      x2 == IF to_xent THEN NumBackward(c.fb, x1) ELSE x1
      d2 == IF to_xent /\ c.deriv_given THEN AddMat(d1, 1, x2)
            ELSE IF to_deriv THEN NumBackward(c.fb, d1) ELSE d1
      objf0 == ObjfValue(num_logprob_weighted, den_logprob_weighted)
      fail == FailureTest(objf0, denominator_ok /\ numerator_ok)
      d3 == ZeroedOnFailure(fail, c.deriv_given, d2)
      x3 == ZeroedOnFailure(fail, c.xent_given, x2)
      objf1 == IF fail THEN DefaultObjf(weight) ELSE objf0
      with_l2 == E2eRegularised(c, numerator_ok)
      l2_term == IF with_l2 THEN SquaredL2Term(c) ELSE Fin(0)
      d4 == IF with_l2 /\ c.deriv_given THEN AddMat(d3, -L2Scale(c), X) ELSE d3
  IN  Ret(objf1, Unset, l2_term, weight, d4, x3, fail, numerator_ok,
          Snapshot(objf0, Unset, d2, x2), Snapshot(objf1, Unset, d3, x3),
          NoMatrix, ChainSteps(c, to_xent \/ to_deriv))

\* xent_output_deriv of the KL driver: the targets times supervision.weight
KLXent(c) ==
  IF c.xent_given
  THEN Scale(CopyFromMat(XentResized(c), c.supervision.numerator_post_targets),
             c.supervision.weight)
  ELSE c.xent
\* (mutant) without xent_output_deriv the targets are added without the weight
KLDerivUnweightedTargets(c, d, x) ==
  IF c.xent_given /\ c.deriv_given THEN AddMat(d, 1, x)
  ELSE IF c.deriv_given THEN AddMat(d, 1, c.supervision.numerator_post_targets)
  ELSE d
\* the targets added to nnet_output_deriv: through xent_output_deriv when it is
\* given, else AddMat(supervision.weight, numerator_post)
KLDerivAfterTargets(c, d, x) ==
  IF c.xent_given /\ c.deriv_given THEN AddMat(d, 1, x)
  ELSE IF c.deriv_given THEN AddMat(d, c.supervision.weight, c.supervision.numerator_post_targets)
  ELSE d

\* (mutant) the number of rows of nnet_output is not checked
KLAssertionsWithoutRows(c) ==
  /\ c.supervision.numerator_post_targets.nr > 0
  /\ c.supervision.numerator_post_targets.nr = c.nnet_output.nr
\* the three KALDI_ASSERTs ComputeKLObjfAndDeriv starts with
KLAssertions(c) ==
  /\ c.supervision.numerator_post_targets.nr > 0
  /\ c.nnet_output.nr = c.supervision.num_sequences * c.supervision.frames_per_sequence
  /\ c.supervision.numerator_post_targets.nr = c.nnet_output.nr

ComputeKLObjfAndDeriv(c) ==
  LET sup == c.supervision
      X == c.nnet_output
      d0 == DerivZeroedOnEntry(c)
      den_logprob_weighted == DenLogprobWeighted(c)
      ok == DenBackwardOk(c)
      d1 == DerivAfterDenominator(c, d0)
      x1 == KLXent(c)
      d2 == KLDerivAfterTargets(c, d1, x1)
      objf0 == FNeg(den_logprob_weighted)
      weight == SupervisionWeight(sup)
      fail == FailureTest(objf0, ok)
      d3 == ZeroedOnFailure(fail, c.deriv_given, d2)
      x3 == ZeroedOnFailure(fail, c.xent_given, x1)
      objf1 == IF fail THEN DefaultObjf(weight) ELSE objf0
  IN  Ret(objf1, Unset, ChainL2Term(c), weight, ChainL2Deriv(c, d3), x3, fail, TRUE,
          Snapshot(objf0, Unset, d2, x1), Snapshot(objf1, Unset, d3, x3),
          NoMatrix, KLSteps(c))

\* the numerator block of the compact path: Backward into xent_output_deriv
\* when it is given, else into nnet_output_deriv
XentAfterNumerator(c, x) == IF c.xent_given THEN NumBackward(c.fb, x) ELSE x
\* (mutant) the posterior written into xent_output_deriv is not added to
\* nnet_output_deriv
DerivWithoutXentAdded(c, d, x) ==
  IF c.xent_given THEN d
  ELSE IF c.deriv_given THEN NumBackward(c.fb, d) ELSE d
DerivAfterNumerator(c, d, x) ==
  IF c.xent_given /\ c.deriv_given THEN AddMat(d, 1, x)
  ELSE IF c.deriv_given THEN NumBackward(c.fb, d) ELSE d

ComputeChainObjfAndDeriv(c) ==
  IF c.supervision.e2e THEN ComputeChainObjfAndDerivE2e(c) ELSE
  LET sup == c.supervision
      d0 == DerivZeroedOnEntry(c)
      den_logprob_weighted == DenLogprobWeighted(c)
      ok == DenBackwardOk(c)
      d1 == DerivAfterDenominator(c, d0)
      x1 == XentResized(c)
      num_logprob_weighted == NumForward(c.fb)
      x2 == XentAfterNumerator(c, x1)
      d2 == DerivAfterNumerator(c, d1, x2)
      objf0 == ObjfValue(num_logprob_weighted, den_logprob_weighted)
      weight == SupervisionWeight(sup)
      fail == FailureTest(objf0, ok)
      d3 == ZeroedOnFailure(fail, c.deriv_given, d2)
      x3 == ZeroedOnFailure(fail, c.xent_given, x2)
      objf1 == IF fail THEN DefaultObjf(weight) ELSE objf0
  IN  Ret(objf1, Unset, ChainL2Term(c), weight, ChainL2Deriv(c, d3), x3, fail, TRUE,
          Snapshot(objf0, Unset, d2, x2), Snapshot(objf1, Unset, d3, x3),
          NoMatrix, ChainSteps(c, c.xent_given \/ c.deriv_given))

\* a NULL sil_indices pointer
NoIndices == <<>>

\* (mutant) the numerator posterior goes to the SMBR denominator as it is
SilenceUntreated(c, num_posteriors) == num_posteriors
\* (mutant) one_silence_class is looked at after exclude_silence, not instead
SilenceBothTreatments(c, num_posteriors) ==
  LET sil == c.sil_indices
      X == c.nnet_output
      zeroed == IF sil # NoIndices /\ c.opts.exclude_silence
                THEN CopyCols(num_posteriors, num_posteriors, sil)
                ELSE num_posteriors
  IN  IF sil # NoIndices /\ c.opts.one_silence_class
      THEN CopyColsFromVec(zeroed, RowSums(CopyCols(Zeros(X.nr, X.nc), zeroed, sil)), sil)
      ELSE zeroed
\* the numerator posterior as the SMBR denominator gets it
SilenceTreated(c, num_posteriors) ==
  LET sil == c.sil_indices
      X == c.nnet_output
  IN  IF sil # NoIndices /\ c.opts.exclude_silence
      THEN CopyCols(num_posteriors, num_posteriors, sil)
      ELSE IF sil # NoIndices /\ c.opts.one_silence_class
      THEN LET silence_post == CopyCols(Zeros(X.nr, X.nc), num_posteriors, sil)
               total_silence_post == RowSums(silence_post)
           IN  CopyColsFromVec(num_posteriors, total_silence_post, sil)
      ELSE num_posteriors

\* (mutant) the derivative is taken from the posterior after the silence
\* treatment
SmbrDerivFromTreated(c, num_posteriors) ==
  IF ~c.deriv_given THEN c.deriv
  ELSE IF c.opts.mmi_factor # 0
  THEN Scale(CopyFromMat(c.deriv, SilenceTreated(c, num_posteriors)), c.opts.mmi_factor)
  ELSE SetZero(c.deriv)
\* the derivative before BackwardSmbr: mmi_factor times the numerator
\* posterior when mmi_factor != 0, zero otherwise
SmbrDerivBeforeBackward(c, num_posteriors) ==
  IF ~c.deriv_given THEN c.deriv
  ELSE IF c.opts.mmi_factor # 0
  THEN Scale(CopyFromMat(c.deriv, num_posteriors), c.opts.mmi_factor)
  ELSE SetZero(c.deriv)

\* (mutant) the SMBR driver ignores norm_regularize
SmbrL2TermWithoutNorm(c) == ChainL2Term(c)
\* the regulariser of ComputeChainSmbrObjfAndDeriv
SmbrL2Term(c) ==
  IF c.opts.l2_regularize = 0 THEN Fin(0)
  ELSE IF ~c.opts.norm_regularize THEN SquaredL2Term(c)
  ELSE Fin(-L2Scale(c) * Sum(ApplyExp(c.nnet_output)))
SmbrL2Deriv(c, d) ==
  IF c.opts.l2_regularize = 0 \/ ~c.deriv_given THEN d
  ELSE IF ~c.opts.norm_regularize THEN AddMat(d, -L2Scale(c), c.nnet_output)
  ELSE AddMat(d, -L2Scale(c), ApplyExp(c.nnet_output))

SmbrSteps(c) == NumSteps(TRUE) \o <<"den.ctor", "den.ForwardSmbr">>
                  \o (IF c.deriv_given THEN <<"den.BackwardSmbr">> ELSE <<>>)

\* (mutant) the numerator term of mmi_objf is not scaled by mmi_factor
SmbrMmiObjfUnscaled(c) ==
  FAdd(FMul(Fin(c.supervision.weight), c.fb.den_logprob_negated), NumForward(c.fb))
\* num_logprob_weighted = opts.mmi_factor * numerator.Forward();
\* *mmi_objf = supervision.weight * den_logprob_negated + num_logprob_weighted
SmbrMmiObjfValue(c) ==
  FAdd(FMul(Fin(c.supervision.weight), c.fb.den_logprob_negated),
       FMul(Fin(c.opts.mmi_factor), NumForward(c.fb)))
\* *objf = supervision.weight * smbr_objf
SmbrObjfValue(c) == FMul(Fin(c.supervision.weight), c.fb.smbr_objf)

\* (mutant) the default of the MMI drivers, -10 per frame, is used
SmbrDefaultWithoutFactor(c, weight) == FMul(Fin(-10), weight)
\* default_objf = -opts.mmi_factor * 10; *mmi_objf = default_objf * *weight
SmbrDefaultMmiObjf(c, weight) == FMul(Fin(-c.opts.mmi_factor * 10), weight)

ComputeChainSmbrObjfAndDeriv(c) ==
  LET sup == c.supervision
      X == c.nnet_output
      num_posteriors == NumBackward(c.fb, Zeros(X.nr, X.nc))
      x0 == IF c.xent_given THEN CopyFromMat(c.xent, num_posteriors) ELSE c.xent
      accuracy == SilenceTreated(c, num_posteriors)
      ok == IF c.deriv_given THEN c.fb.smbr_ok ELSE TRUE
      d1 == IF c.deriv_given
            THEN BackwardSmbr(c.fb, sup.weight, SmbrDerivBeforeBackward(c, num_posteriors))
            ELSE c.deriv
      objf0 == SmbrObjfValue(c)
      mmi_objf0 == SmbrMmiObjfValue(c)
      weight == SupervisionWeight(sup)
      total_objf == FAdd(objf0, mmi_objf0)
      fail == FailureTest(total_objf, ok)
      d2 == ZeroedOnFailure(fail, c.deriv_given, d1)
      x1 == ZeroedOnFailure(fail, c.xent_given, x0)
      mmi_objf1 == IF fail THEN SmbrDefaultMmiObjf(c, weight) ELSE mmi_objf0
      objf1 == IF fail THEN Fin(0) ELSE objf0
  IN  Ret(objf1, mmi_objf1, SmbrL2Term(c), weight, SmbrL2Deriv(c, d2), x1, fail, TRUE,
          Snapshot(objf0, mmi_objf0, d1, x0), Snapshot(objf1, mmi_objf1, d2, x1),
          accuracy, SmbrSteps(c))

\* the call of a driver by name
Run(name, c) ==
  CASE name = "chain" -> ComputeChainObjfAndDeriv(c)
    [] name = "kl" -> ComputeKLObjfAndDeriv(c)
    [] name = "smbr" -> ComputeChainSmbrObjfAndDeriv(c)

\* the numerator object a driver constructs for its supervision:
\* GenericNumeratorComputation in the e2e variant, NumeratorComputation in
\* ComputeChainObjfAndDeriv and in ComputeChainSmbrObjfAndDeriv, none in
\* ComputeKLObjfAndDeriv
NumeratorRun(name, c) ==
  CASE name = "chain" -> IF c.supervision.e2e THEN "generic" ELSE "compact"
    [] name = "kl" -> "none"
    [] name = "smbr" -> "compact"

\* ------------------------------------------- NnetChainComputeProb
\* std::vector<int32> indices(num_pdfs, -1)
AllMinusOne(P) == [i \in 0..(P - 1) |-> -1]
\* for (i = 0; i < num_pdfs; i++) indices[i] = i
OwnIndex(P) == [i \in 0..(P - 1) |-> i]

\* (mutant) the pdf that equals num_pdfs is refused too
PdfRefusedFromNumPdfs(pdf, P) == pdf >= P
\* if (pdf > num_pdfs) KALDI_ERR << "Invalid pdf "
PdfRefused(pdf, P) == pdf > P

\* what the loop over silence_pdfs leaves: status "error" when a pdf was
\* refused, the indices written so far, and in_bounds = FALSE when some
\* indices[pdf] was written outside the vector (pdf = num_pdfs or pdf < 0)
Marked(status, indices, in_bounds) ==
  [status |-> status, indices |-> indices, in_bounds |-> in_bounds]

\* the loop over silence_pdfs: indices[pdf] = -1 (minus_one) or = pdf
RECURSIVE MarkSilence(_, _, _, _)
MarkSilence(indices, pdfs, P, minus_one) ==
  IF pdfs = <<>> THEN Marked("ok", indices, TRUE)
  ELSE LET pdf == Head(pdfs)
       IN  IF PdfRefused(pdf, P) THEN Marked("error", indices, TRUE)
           ELSE LET written == IF pdf \in DOMAIN indices
                               THEN [indices EXCEPT ![pdf] = IF minus_one THEN -1 ELSE pdf]
                               ELSE indices
                    rest == MarkSilence(written, Tail(pdfs), P, minus_one)
                IN  Marked(rest.status, rest.indices,
                           rest.in_bounds /\ pdf \in DOMAIN indices)

\* (mutant) the first constructor builds the vector of exclude_silence for
\* one_silence_class too
SilIndicesAlwaysMasking(cfg, P) == MarkSilence(OwnIndex(P), cfg.silence_pdfs, P, TRUE)
\* the vector the first constructor builds: for exclude_silence -1 at the
\* silence pdfs and i elsewhere, otherwise (one_silence_class) pdf at the
\* silence pdfs and -1 elsewhere
SilIndicesOfFirst(cfg, P) ==
  IF cfg.exclude_silence THEN MarkSilence(OwnIndex(P), cfg.silence_pdfs, P, TRUE)
  ELSE MarkSilence(AllMinusOne(P), cfg.silence_pdfs, P, FALSE)
\* the vector the second constructor builds
SilIndicesOfSecond(cfg, P) == MarkSilence(OwnIndex(P), cfg.silence_pdfs, P, TRUE)

\* (mutant) the first constructor accepts an empty silence_pdfs_str
SilenceRequiredNever(cfg) == FALSE
\* if (chain_config.silence_pdfs_str.empty()) KALDI_ERR << "--silence-pdfs is required ..."
SilenceRequired(cfg) == cfg.silence_pdfs = <<>>

\* NnetChainComputeProb(nnet_config, chain_config, den_fst, const Nnet &nnet)
FirstConstructor(ncfg, cfg, P) ==
  IF ~ncfg.compute_deriv /\ ncfg.store_component_stats
  THEN Marked("error", <<>>, TRUE)
  ELSE IF cfg.use_smbr_objective /\ (cfg.exclude_silence \/ cfg.one_silence_class)
  THEN IF SilenceRequired(cfg) THEN Marked("error", <<>>, TRUE)
       ELSE SilIndicesOfFirst(cfg, P)
  ELSE Marked("ok", <<>>, TRUE)

\* NnetChainComputeProb(nnet_config, chain_config, den_fst, Nnet *nnet)
SecondConstructor(ncfg, cfg, P) ==
  IF ~(ncfg.store_component_stats /\ ~ncfg.compute_deriv)
  THEN Marked("asserted", <<>>, TRUE)
  ELSE IF cfg.silence_pdfs # <<>> THEN SilIndicesOfSecond(cfg, P)
  ELSE Marked("ok", <<>>, TRUE)

\* (mutant) a buffer for the cross-entropy derivative is always passed
UseXentAlways(cfg) == TRUE
\* bool use_xent = (chain_config_.xent_regularize != 0.0)
UseXent(cfg) == cfg.xent_regularize # 0

\* the driver ProcessOutputs calls for a supervision
DriverFor(cfg, sup) ==
  IF sup.numerator_post_targets.nr > 0 THEN "kl"
  ELSE IF cfg.use_smbr_objective THEN "smbr" ELSE "chain"

\* sil_indices_.Dim() ? &sil_indices_ : NULL
SilIndicesArgument(indices) == IF DOMAIN indices # {} THEN indices ELSE NoIndices

\* ----------------------------- NnetChainComputeProb, accumulated objectives
\* ObjectiveValues (a vector of doubles): Add, Sum, Scale and IsZero
NoValues == <<>>
ValuesAdd(tot, values) ==
  IF tot = NoValues THEN values
  ELSE [i \in DOMAIN tot |-> FAdd(tot[i], values[i])]
RECURSIVE ValuesSum(_)
ValuesSum(values) ==
  IF values = <<>> THEN Fin(0) ELSE FAdd(Head(values), ValuesSum(Tail(values)))
ValuesScale(values, a) == [i \in DOMAIN values |-> FMul(values[i], a)]
ValuesIsZero(values) == \A i \in DOMAIN values : values[i] = Fin(0)

\* ChainObjectiveInfo(objf_scale, aux_objf_scales): totals start at zero
ChainObjectiveInfo(objf_scale, aux_objf_scales) ==
  [objf_scale |-> objf_scale, aux_objf_scales |-> aux_objf_scales,
   tot_weight |-> Fin(0), tot_like |-> Fin(0), tot_aux_objfs |-> NoValues]
\* ChainObjectiveInfo(): what objf_info_[xent_name] inserts
DefaultObjectiveInfo == ChainObjectiveInfo(1, <<>>)

\* an empty objective_scales_ and an empty objf_info_
NoScales == <<>>
NoInfo == <<>>
\* smbr_factor(1.0), the default of the options
SmbrFactor == 1
\* xent_name = sup.name + "-xent"
XentName(name) == name \o "-xent"
\* map[name] = value
Stored(map, name, value) ==
  [n \in DOMAIN map \cup {name} |-> IF n = name THEN value ELSE map[n]]

\* the members ProcessOutputs reads and the ones it writes, as records
Members(ncfg, cfg, scales, sil) ==
  [nnet_config |-> ncfg, chain_config |-> cfg, objective_scales |-> scales,
   sil_indices |-> sil]
Progress(info, n, log, aux) ==
  [objf_info |-> info, num_minibatches_processed |-> n, computer |-> log, pushed |-> aux]
\* a supervision output of the example: its name, the call of the driver it
\* leads to, what the uninitialised tot_mmi_objf holds, and the network's
\* output of name xent_name
Output(name, c, garbage, xent_output) ==
  [name |-> name, call |-> c, garbage |-> garbage, xent_output |-> xent_output]

\* what the computer is told
AcceptInputs == [op |-> "AcceptInputs", name |-> "", deriv |-> NoMatrix]
ComputerRun == [op |-> "Run", name |-> "", deriv |-> NoMatrix]
AcceptInput(name, deriv) == [op |-> "AcceptInput", name |-> name, deriv |-> deriv]

\* x *= it->second, when objective_scales_ has the name
Times(x, scales, name) ==
  IF name \in DOMAIN scales THEN FMul(x, Fin(scales[name])) ELSE x
\* BaseFloat objf_scale = 1.0, or it->second
ObjfScale(scales, name) == IF name \in DOMAIN scales THEN scales[name] ELSE 1

\* (mutant) tot_weight is accumulated without the objective scale
TotWeightUnscaled(weight, scales, name) == weight
\* tot_weight *= it->second
TotWeightScaled(weight, scales, name) == Times(weight, scales, name)

\* what tot_mmi_objf holds after the driver: the SMBR driver's mmi_objf, or
\* whatever the uninitialised variable held
MmiObjfHeld(r, garbage) == IF r.mmi_objf = Unset THEN garbage ELSE r.mmi_objf

\* (mutant) tot_mmi_objf is pushed whatever use_smbr_objective is
AuxObjfsAlwaysTwo(cfg, tot_l2_term, tot_mmi_objf) == <<tot_l2_term, tot_mmi_objf>>
\* aux_objfs.push_back(tot_l2_term); if (use_smbr_objective) push_back(tot_mmi_objf)
AuxObjfs(cfg, tot_l2_term, tot_mmi_objf) ==
  IF cfg.use_smbr_objective THEN <<tot_l2_term, tot_mmi_objf>> ELSE <<tot_l2_term>>
\* the scales a new entry of objf_info_ is constructed with
AuxObjfScales(cfg, objf_scale) ==
  IF cfg.use_smbr_objective THEN <<objf_scale, objf_scale * cfg.mmi_factor>>
  ELSE <<objf_scale>>
ThisObjfScale(cfg, objf_scale) ==
  IF cfg.use_smbr_objective THEN objf_scale * SmbrFactor ELSE objf_scale

\* (mutant) the counter is left alone
MinibatchesNotCounted(n) == n
\* num_minibatches_processed_++
MinibatchesCounted(n) == n + 1

\* the entry of sup.name in objf_info_, inserted when it is not there
Found(m, info, name) ==
  IF name \in DOMAIN info THEN info[name]
  ELSE ChainObjectiveInfo(ThisObjfScale(m.chain_config, ObjfScale(m.objective_scales, name)),
                          AuxObjfScales(m.chain_config, ObjfScale(m.objective_scales, name)))
\* it->second.tot_weight += tot_weight; tot_like += tot_like; tot_aux_objfs.Add(aux_objfs)
Added(found, tot_weight, tot_like, aux_objfs) ==
  [found EXCEPT !.tot_weight = FAdd(@, tot_weight),
                !.tot_like = FAdd(@, tot_like),
                !.tot_aux_objfs = ValuesAdd(@, aux_objfs)]
\* ChainObjectiveInfo &xent_totals = objf_info_[xent_name]
XentFound(info, xent_name) ==
  IF xent_name \in DOMAIN info THEN info[xent_name] ELSE DefaultObjectiveInfo
\* xent_objf = TraceMatMat(xent_output, xent_deriv, kTrans), times the scale of xent_name
XentObjf(m, o, r) ==
  Times(Fin(TraceMatMat(o.xent_output, r.xent)), m.objective_scales, XentName(o.name))
\* xent_totals.tot_weight += tot_weight; xent_totals.tot_like += xent_objf
XentAdded(xent_found, tot_weight, xent_objf) ==
  [xent_found EXCEPT !.tot_weight = FAdd(@, tot_weight),
                     !.tot_like = FAdd(@, xent_objf)]
\* the use_xent block
WithXent(m, info, o, r, tot_weight) ==
  IF UseXent(m.chain_config)
  THEN Stored(info, XentName(o.name),
              XentAdded(XentFound(info, XentName(o.name)), tot_weight, XentObjf(m, o, r)))
  ELSE info
\* the derivative handed to the computer: scaled when sup.name has a scale
DerivHanded(m, o, r) ==
  IF o.name \in DOMAIN m.objective_scales
  THEN Scale(r.deriv, m.objective_scales[o.name]) ELSE r.deriv
\* (mutant) the derivative is handed to the computer whatever compute_deriv is
HandedAlways(m, log, o, r) == Append(log, AcceptInput(o.name, DerivHanded(m, o, r)))
\* if (compute_deriv) computer->AcceptInput(sup.name, &nnet_output_deriv)
Handed(m, log, o, r) ==
  IF m.nnet_config.compute_deriv
  THEN Append(log, AcceptInput(o.name, DerivHanded(m, o, r))) ELSE log

\* one iteration of the loop, from the driver's return r on, with the scaled
\* tot_weight and the values pushed into aux_objfs
Accumulated(m, st, o, r, tot_weight, aux_objfs) ==
  Progress(WithXent(m, Stored(st.objf_info, o.name,
                              Added(Found(m, st.objf_info, o.name), tot_weight,
                                    Times(r.objf, m.objective_scales, o.name), aux_objfs)),
                    o, r, tot_weight),
           MinibatchesCounted(st.num_minibatches_processed),
           Handed(m, st.computer, o, r),
           Append(st.pushed,
                  [name |-> o.name, objf |-> r.objf, weight |-> r.weight,
                   mmi_assigned |-> r.mmi_objf # Unset, aux_objfs |-> aux_objfs]))
\* one iteration of the loop, from the driver's return r on
AfterDriver(m, st, o, r) ==
  Accumulated(m, st, o, r, TotWeightScaled(r.weight, m.objective_scales, o.name),
              AuxObjfs(m.chain_config,
                       Times(r.l2_term, m.objective_scales, o.name),
                       Times(MmiObjfHeld(r, o.garbage), m.objective_scales, o.name)))
\* one iteration of the loop of ProcessOutputs
ProcessOutput(m, st, o) ==
  AfterDriver(m, st, o, Run(DriverFor(m.chain_config, o.call.supervision), o.call))

\* ProcessOutputs(eg, computer): the loop over eg.outputs
RECURSIVE ProcessOutputs(_, _, _)
ProcessOutputs(m, st, outputs) ==
  IF outputs = <<>> THEN st
  ELSE ProcessOutputs(m, ProcessOutput(m, st, Head(outputs)), Tail(outputs))

\* (mutant) Reset leaves objf_info_ as it is
InfoKept(info) == info
\* objf_info_.clear()
InfoCleared(info) == NoInfo

\* GetObjective(output_name): NULL when objf_info_ has no such name
GetObjective(info, output_name) ==
  IF output_name \in DOMAIN info THEN info[output_name] ELSE "NULL"
\* PrintTotalStats(): true when some output has tot_weight > 0
PrintTotalStats(info) ==
  \E n \in DOMAIN info : info[n].tot_weight.k # "nan" /\ info[n].tot_weight.v > 0

\* a BaseFloat that is the quotient of two integers, kept exact: n / d in
\* lowest terms with d > 0, or a NaN, or an infinity of sign n
RECURSIVE GCD(_, _)
GCD(a, b) == IF b = 0 THEN a ELSE GCD(b, a % b)
Abs(n) == IF n < 0 THEN -n ELSE n
Quotient(n, d) ==
  [k |-> "fin", n |-> (Sign(d) * n) \div GCD(Abs(n), Abs(d)),
   d |-> Abs(d) \div GCD(Abs(n), Abs(d))]
QNaN == [k |-> "nan", n |-> 0, d |-> 1]
QInf(s) == [k |-> "inf", n |-> s, d |-> 1]
QOf(x) ==
  IF x.k = "fin" THEN Quotient(x.v, 1) ELSE IF x.k = "inf" THEN QInf(x.v) ELSE QNaN
QAdd(a, b) ==
  IF a.k = "nan" \/ b.k = "nan" THEN QNaN
  ELSE IF a.k = "fin" /\ b.k = "fin" THEN Quotient(a.n * b.d + b.n * a.d, a.d * b.d)
  ELSE IF a.k = "inf" /\ b.k = "inf" THEN (IF a.n = b.n THEN a ELSE QNaN)
  ELSE IF a.k = "inf" THEN a ELSE b
QDiv(a, b) ==
  IF a.k = "nan" \/ b.k = "nan" THEN QNaN
  ELSE IF a.k = "inf" THEN (IF b.k = "inf" THEN QNaN
                            ELSE QInf(a.n * (IF b.n < 0 THEN -1 ELSE 1)))
  ELSE IF b.k = "inf" THEN Quotient(0, 1)
  ELSE IF b.n = 0 THEN (IF a.n = 0 THEN QNaN ELSE QInf(Sign(a.n)))
  ELSE Quotient(a.n * b.d, a.d * b.n)
\* x / y of two BaseFloats
FDiv(x, y) == QDiv(QOf(x), QOf(y))

\* (mutant) the un-normalised total of one output: tot_like plus its
\* accumulated auxiliary objectives
ObjfUnnormalised(info) == QOf(FAdd(info.tot_like, ValuesSum(info.tot_aux_objfs)))
\* GetTotalObjective, one output: like = tot_like / tot_weight;
\* aux_objfs.Scale(tot_weight); like + aux_objfs.Sum()
ObjfAdded(info) ==
  QAdd(FDiv(info.tot_like, info.tot_weight),
       QOf(ValuesSum(ValuesScale(info.tot_aux_objfs, info.tot_weight))))
\* tot_objf += ..., over the outputs of these names
RECURSIVE TotObjf(_, _)
TotObjf(info, names) ==
  IF names = {} THEN Quotient(0, 1)
  ELSE QAdd(TotObjf(info, names \ {CHOOSE n \in names : TRUE}),
            ObjfAdded(info[CHOOSE n \in names : TRUE]))
\* tot_weight += info.tot_weight, over the outputs of these names
RECURSIVE TotWeight(_, _)
TotWeight(info, names) ==
  IF names = {} THEN Fin(0)
  ELSE FAdd(TotWeight(info, names \ {CHOOSE n \in names : TRUE}),
            info[CHOOSE n \in names : TRUE].tot_weight)
\* GetTotalObjective(): the pair (tot_objf, tot_weight)
GetTotalObjective(info) == <<TotObjf(info, DOMAIN info), TotWeight(info, DOMAIN info)>>
\* PrintTotalStats, one output: like = tot_like / tot_weight;
\* aux_objfs.InvScale(tot_weight); tot_objf = like + aux_objfs.Sum()
TotObjfPrinted(info) ==
  QAdd(FDiv(info.tot_like, info.tot_weight),
       FDiv(ValuesSum(info.tot_aux_objfs), info.tot_weight))

\* ------------------------------------------------------------- state
VARIABLES
  pc,                 \* "idle": no call made yet; "returned": a driver has returned;
                      \* "aborted": a KALDI_ASSERT of the driver failed
  driver,             \* the driver that was called: "chain", "kl", "smbr" ("none" when idle)
  opts,               \* ChainTrainingOptions
  supervision,        \* Supervision
  nnet_output,        \* the score matrix X
  fb,                 \* what the forward-backward objects return in this call
  sil_indices,        \* the silence index vector, NoIndices for NULL
  deriv_given,        \* nnet_output_deriv != NULL
  xent_given,         \* xent_output_deriv != NULL
  entry_deriv,        \* *nnet_output_deriv on entry
  entry_xent,         \* *xent_output_deriv on entry
  nnet_output_deriv,  \* *nnet_output_deriv now
  xent_output_deriv,  \* *xent_output_deriv now
  objf, mmi_objf, l2_term, weight,   \* the out-parameters
  hist,               \* history of the call: failed, numerator_ok, at_check,
                      \* after_check, accuracy, trace, numerator
  prob,               \* the NnetChainComputeProb object: "none", "constructed",
                      \* "error" (KALDI_ERR thrown by the constructor), "asserted"
                      \* (KALDI_ASSERT failed), "crashed" (a write outside the vector)
  ctor,               \* the constructor used: "first" (const Nnet &), "second" (Nnet *)
  nnet_config_,       \* NnetComputeProbOptions
  chain_config_,      \* ChainTrainingOptions
  sil_indices_,       \* the silence index vector, empty when none was built
  heap_ok,            \* FALSE once a constructor has written outside its vector
  objective_scales_,  \* the scales parsed from objective_scales_str, by output name
  objf_info_,         \* ChainObjectiveInfo by output name
  num_minibatches_processed_,
  deriv_nnet_,        \* "null", "own" (new Nnet(nnet_)) or "nnet" (the caller's network)
  deriv_,             \* what the network deriv_nnet_ owns holds: "zero" or "gradient"
  nnet_,              \* the parameters of the network nnet_ refers to: "given" or "zeroed"
  computer,           \* what the NnetComputer of the latest Compute was told, in order
  pushed,             \* per output of the latest Compute: what was accumulated
  last_call           \* the latest member function called: "none", "constructor",
                      \* "Compute", "Reset"

vars == <<pc, driver, opts, supervision, nnet_output, fb, sil_indices, deriv_given,
          xent_given, entry_deriv, entry_xent, nnet_output_deriv, xent_output_deriv,
          objf, mmi_objf, l2_term, weight, hist,
          prob, ctor, nnet_config_, chain_config_, sil_indices_, heap_ok,
          objective_scales_, objf_info_, num_minibatches_processed_, deriv_nnet_,
          deriv_, nnet_, computer, pushed, last_call>>
\* the members of the NnetChainComputeProb object
object == <<prob, ctor, nnet_config_, chain_config_, sil_indices_, heap_ok>>
\* the members that Compute and Reset write, and the history of the latest Compute
totals == <<objective_scales_, objf_info_, num_minibatches_processed_, deriv_nnet_,
            deriv_, nnet_, computer, pushed, last_call>>
\* the arguments and results of a driver call
call == <<pc, driver, opts, supervision, nnet_output, fb, sil_indices, deriv_given,
          xent_given, entry_deriv, entry_xent, nnet_output_deriv, xent_output_deriv,
          objf, mmi_objf, l2_term, weight, hist>>

\* ------------------------------------------------------------ inputs
Ramp(r, c, k) == [nr |-> r, nc |-> c,
                  e |-> [p \in Cells(r, c) |-> (p[1] + p[2] + k) % (MaxVal + 1)]]
Const(r, c, v) == [nr |-> r, nc |-> c, e |-> [p \in Cells(r, c) |-> v]]
Scores(r, c) == {Ramp(r, c, 0), Const(r, c, 1)}
Posteriors(r, c) == {Const(r, c, 1), Ramp(r, c, 1)}
\* what a buffer may hold on entry
DerivEntries(r, c) == {Zeros(r, c), Ramp(r, c, 2)}
XentEntries(r, c) == {NoMatrix, Ramp(r, c, 1)}
\* l2_regularize, in units that make -0.5 * scale an integer
L2Coefficients == {0, 2}
MmiFactors == {0, 1}
DenLogprobs == {Fin(-1), Fin(2), PosInf, NaN}
NumLogprobs == {Fin(-3), Fin(0), NegInf}
SmbrObjfs == {Fin(1), NaN}
\* silence pdfs {0}: -1 there and i elsewhere
SilIndices == {NoIndices, [i \in 0..(NumPdfs - 1) |-> IF i = 0 THEN -1 ELSE i]}

Options(l2, norm, mmi, excl, one) ==
  [l2_regularize |-> l2, norm_regularize |-> norm, mmi_factor |-> mmi,
   exclude_silence |-> excl, one_silence_class |-> one]
Supervision(w, S, T, e2e, Q) ==
  [weight |-> w, num_sequences |-> S, frames_per_sequence |-> T, e2e |-> e2e,
   numerator_post_targets |-> Q]
Results(dl, dok, dp, nl, nok, np, so, dn, sok, sp) ==
  [den_logprob |-> dl, den_ok |-> dok, den_post |-> dp, num_logprob |-> nl,
   num_back_ok |-> nok, num_post |-> np, smbr_objf |-> so,
   den_logprob_negated |-> dn, smbr_ok |-> sok, smbr_post |-> sp]
Call(o, sup, X, f, sil, dg, xg, d, x) ==
  [opts |-> o, supervision |-> sup, nnet_output |-> X, fb |-> f, sil_indices |-> sil,
   deriv_given |-> dg, xent_given |-> xg, deriv |-> d, xent |-> x]

\* NnetComputeProbOptions and the ChainTrainingOptions of a NnetChainComputeProb
NnetConfig(deriv, stats) == [compute_deriv |-> deriv, store_component_stats |-> stats]
ChainConfig(l2, norm, mmi, excl, one, smbr, xent, pdfs) ==
  [l2_regularize |-> l2, norm_regularize |-> norm, mmi_factor |-> mmi,
   exclude_silence |-> excl, one_silence_class |-> one,
   use_smbr_objective |-> smbr, xent_regularize |-> xent, silence_pdfs |-> pdfs]
\* xent_regularize: off, on
XentCoefficients == {0, 1}
\* the pdfs listed in silence_pdfs_str: none, one pdf (below 0, inside
\* [0, num_pdfs), num_pdfs itself, above it), or the first two pdfs
SilencePdfLists == {<<>>} \cup {<<pdf>> : pdf \in -1..(NumPdfs + 1)} \cup {<<0, 1>>}
NoNnetConfig == NnetConfig(FALSE, FALSE)
NoChainConfig == ChainConfig(0, FALSE, 0, FALSE, FALSE, FALSE, 0, <<>>)

NoOptions == Options(0, FALSE, 0, FALSE, FALSE)
NoSupervision == Supervision(1, 1, 1, FALSE, NoMatrix)
NoResults == Results(Fin(0), TRUE, NoMatrix, Fin(0), TRUE, NoMatrix, Fin(0), Fin(0), TRUE, NoMatrix)
NoHist == [failed |-> FALSE, numerator_ok |-> TRUE,
           at_check |-> Snapshot(Unset, Unset, NoMatrix, NoMatrix),
           after_check |-> Snapshot(Unset, Unset, NoMatrix, NoMatrix),
           accuracy |-> NoMatrix, trace |-> <<>>, numerator |-> "none"]

\* the call whose inputs the state holds
TheCall == Call(opts, supervision, nnet_output, fb, sil_indices, deriv_given, xent_given,
                entry_deriv, entry_xent)

Init ==
  /\ pc = "idle"
  /\ driver = "none"
  /\ opts = NoOptions
  /\ supervision = NoSupervision
  /\ nnet_output = NoMatrix
  /\ fb = NoResults
  /\ sil_indices = NoIndices
  /\ deriv_given = FALSE
  /\ xent_given = FALSE
  /\ entry_deriv = NoMatrix
  /\ entry_xent = NoMatrix
  /\ nnet_output_deriv = NoMatrix
  /\ xent_output_deriv = NoMatrix
  /\ objf = Unset
  /\ mmi_objf = Unset
  /\ l2_term = Unset
  /\ weight = Unset
  /\ hist = NoHist
  /\ prob = "none"
  /\ ctor = "none"
  /\ nnet_config_ = NoNnetConfig
  /\ chain_config_ = NoChainConfig
  /\ sil_indices_ = NoIndices
  /\ heap_ok = TRUE
  /\ objective_scales_ = NoScales
  /\ objf_info_ = NoInfo
  /\ num_minibatches_processed_ = 0
  /\ deriv_nnet_ = "null"
  /\ deriv_ = "zero"
  /\ nnet_ = "given"
  /\ computer = <<>>
  /\ pushed = <<>>
  /\ last_call = "none"

\* the caller makes call c of driver name, which returns r
Returns(name, c, r) ==
  /\ pc' = "returned"
  /\ driver' = name
  /\ opts' = c.opts
  /\ supervision' = c.supervision
  /\ nnet_output' = c.nnet_output
  /\ fb' = c.fb
  /\ sil_indices' = c.sil_indices
  /\ deriv_given' = c.deriv_given
  /\ xent_given' = c.xent_given
  /\ entry_deriv' = c.deriv
  /\ entry_xent' = c.xent
  /\ nnet_output_deriv' = r.deriv
  /\ xent_output_deriv' = r.xent
  /\ objf' = r.objf
  /\ mmi_objf' = IF r.mmi_objf = Unset THEN mmi_objf ELSE r.mmi_objf
  /\ l2_term' = r.l2_term
  /\ weight' = r.weight
  /\ hist' = [failed |-> r.failed, numerator_ok |-> r.numerator_ok,
              at_check |-> r.at_check, after_check |-> r.after_check,
              accuracy |-> r.accuracy, trace |-> r.trace,
              numerator |-> NumeratorRun(name, c)]

\* the caller makes call c of driver name, which stops at a failed KALDI_ASSERT
\* before it has written anything
Aborts(name, c) ==
  /\ pc' = "aborted"
  /\ driver' = name
  /\ opts' = c.opts
  /\ supervision' = c.supervision
  /\ nnet_output' = c.nnet_output
  /\ fb' = c.fb
  /\ sil_indices' = c.sil_indices
  /\ deriv_given' = c.deriv_given
  /\ xent_given' = c.xent_given
  /\ entry_deriv' = c.deriv
  /\ entry_xent' = c.xent
  /\ nnet_output_deriv' = c.deriv
  /\ xent_output_deriv' = c.xent
  /\ UNCHANGED <<objf, mmi_objf, l2_term, weight, hist>>

CallChain ==
  /\ pc = "idle"
  /\ \E w \in 1..MaxWeight, S \in 1..MaxSeq, T \in 1..MaxFrames, e2e \in BOOLEAN,
        l2 \in L2Coefficients, norm \in BOOLEAN, dg \in BOOLEAN, xg \in BOOLEAN :
     \E X \in Scores(S * T, NumPdfs),
        d \in (IF dg THEN DerivEntries(S * T, NumPdfs) ELSE {NoMatrix}),
        x \in (IF xg THEN XentEntries(S * T, NumPdfs) ELSE {NoMatrix}),
        dl \in DenLogprobs,
        dok \in (IF dg THEN BOOLEAN ELSE {TRUE}),
        nl \in NumLogprobs,
        nok \in (IF e2e /\ (dg \/ xg) THEN BOOLEAN ELSE {TRUE}),
        np \in (IF dg \/ xg THEN Posteriors(S * T, NumPdfs) ELSE {Const(S * T, NumPdfs, 1)}) :
       LET c == Call(Options(l2, norm, 0, FALSE, FALSE),
                     Supervision(w, S, T, e2e, NoMatrix), X,
                     Results(dl, dok, Ramp(S * T, NumPdfs, 0), nl, nok, np,
                             Fin(0), Fin(0), TRUE, NoMatrix),
                     NoIndices, dg, xg, d, x)
       IN  Returns("chain", c, ComputeChainObjfAndDeriv(c))
  /\ UNCHANGED <<object, totals>>

\* the shapes a caller may hand to ComputeKLObjfAndDeriv: right ones, no
\* target posteriors, one row too many in nnet_output, one row too many in
\* the targets
KLShapes == {"ok", "no_targets", "bad_rows", "bad_targets"}

CallKL ==
  /\ pc = "idle"
  /\ \E w \in 1..MaxWeight, S \in 1..MaxSeq, T \in 1..MaxFrames,
        l2 \in L2Coefficients, dg \in BOOLEAN, xg \in BOOLEAN, shape \in KLShapes :
     LET rows == IF shape = "bad_rows" THEN S * T + 1 ELSE S * T
         targets == IF shape = "no_targets" THEN 0
                    ELSE IF shape = "bad_targets" THEN rows + 1 ELSE rows
     IN
     \E X \in Scores(rows, NumPdfs),
        Q \in (IF targets = 0 THEN {NoMatrix} ELSE Posteriors(targets, NumPdfs)),
        d \in (IF dg THEN DerivEntries(rows, NumPdfs) ELSE {NoMatrix}),
        x \in (IF xg THEN XentEntries(rows, NumPdfs) ELSE {NoMatrix}),
        dl \in (IF shape = "ok" THEN DenLogprobs ELSE {Fin(2)}),
        dok \in (IF dg /\ shape = "ok" THEN BOOLEAN ELSE {TRUE}) :
       LET c == Call(Options(l2, FALSE, 0, FALSE, FALSE),
                     Supervision(w, S, T, FALSE, Q), X,
                     Results(dl, dok, Ramp(rows, NumPdfs, 0), Fin(0), TRUE, NoMatrix,
                             Fin(0), Fin(0), TRUE, NoMatrix),
                     NoIndices, dg, xg, d, x)
       IN  IF KLAssertions(c) THEN Returns("kl", c, ComputeKLObjfAndDeriv(c))
           ELSE Aborts("kl", c)
  /\ UNCHANGED <<object, totals>>

CallSmbr ==
  /\ pc = "idle"
  /\ \E w \in 1..MaxWeight, S \in 1..MaxSeq, T \in 1..MaxFrames,
        l2 \in L2Coefficients, norm \in BOOLEAN, mmi \in MmiFactors,
        dg \in BOOLEAN, xg \in BOOLEAN, sil \in SilIndices :
     \E X \in Scores(S * T, NumPdfs),
        excl \in (IF sil = NoIndices THEN {FALSE} ELSE BOOLEAN),
        one \in (IF sil = NoIndices THEN {FALSE} ELSE BOOLEAN),
        d \in (IF dg THEN DerivEntries(S * T, NumPdfs) ELSE {NoMatrix}),
        x \in (IF xg THEN {Ramp(S * T, NumPdfs, 1)} ELSE {NoMatrix}),
        nl \in NumLogprobs,
        np \in Posteriors(S * T, NumPdfs),
        so \in SmbrObjfs,
        sok \in (IF dg THEN BOOLEAN ELSE {TRUE}) :
       LET c == Call(Options(l2, norm, mmi, excl, one),
                     Supervision(w, S, T, FALSE, NoMatrix), X,
                     Results(Fin(0), TRUE, NoMatrix, nl, TRUE, np,
                             so, Fin(-2), sok, Ramp(S * T, NumPdfs, 0)),
                     sil, dg, xg, d, x)
       IN  Returns("smbr", c, ComputeChainSmbrObjfAndDeriv(c))
  /\ UNCHANGED <<object, totals>>

\* the per-minibatch state is released before the next minibatch
Release ==
  /\ pc = "returned"
  /\ pc' = "idle"
  /\ driver' = "none"
  /\ opts' = NoOptions
  /\ supervision' = NoSupervision
  /\ nnet_output' = NoMatrix
  /\ fb' = NoResults
  /\ sil_indices' = NoIndices
  /\ deriv_given' = FALSE
  /\ xent_given' = FALSE
  /\ entry_deriv' = NoMatrix
  /\ entry_xent' = NoMatrix
  /\ nnet_output_deriv' = NoMatrix
  /\ xent_output_deriv' = NoMatrix
  /\ objf' = Unset
  /\ mmi_objf' = Unset
  /\ l2_term' = Unset
  /\ weight' = Unset
  /\ hist' = NoHist
  /\ computer' = <<>>
  /\ pushed' = <<>>
  /\ UNCHANGED object
  /\ UNCHANGED <<objective_scales_, objf_info_, num_minibatches_processed_,
                 deriv_nnet_, deriv_, nnet_, last_call>>

Next == CallChain \/ CallKL \/ CallSmbr \/ Release

Spec == Init /\ [][Next]_vars

\* ------------------------------------------- NnetChainComputeProb, actions
\* a constructor ran with result r: the object exists, or the constructor
\* threw or stopped; after a write outside the vector the program may also crash
Constructed(which, ncfg, cfg, r) ==
  /\ ctor' = which
  /\ nnet_config_' = ncfg
  /\ chain_config_' = cfg
  /\ \/ /\ prob' = IF r.status = "ok" THEN "constructed" ELSE r.status
        /\ sil_indices_' = IF r.status = "ok" THEN r.indices ELSE NoIndices
        /\ heap_ok' = r.in_bounds
     \/ /\ ~r.in_bounds
        /\ prob' = "crashed"
        /\ sil_indices_' = NoIndices
        /\ heap_ok' = FALSE
  /\ UNCHANGED call

\* objective_scales_str: empty, or a scale for "output" and for "output-xent"
ObjectiveScales == {NoScales, [n \in {"output", "output-xent"} |-> 2]}
\* what the uninitialised tot_mmi_objf may hold
Garbage == {Fin(0), Fin(3), NaN}
\* the members a constructor initialises besides the silence vector
Initialised(scales, deriv_nnet) ==
  /\ objective_scales_' = (IF prob' = "constructed" THEN scales ELSE NoScales)
  /\ objf_info_' = NoInfo
  /\ num_minibatches_processed_' = 0
  /\ deriv_nnet_' = (IF prob' = "constructed" THEN deriv_nnet ELSE "null")
  /\ deriv_' = "zero"
  /\ nnet_' = "given"
  /\ last_call' = "constructor"
  /\ UNCHANGED <<computer, pushed>>

\* the first constructor called with these options
FirstConstructed(deriv, stats, l2, excl, one, smbr, xent, pdfs, scales) ==
  LET ncfg == NnetConfig(deriv, stats)
      cfg == ChainConfig(l2, FALSE, 1, excl, one, smbr, xent, pdfs)
  IN  /\ Constructed("first", ncfg, cfg, FirstConstructor(ncfg, cfg, NumPdfs))
      /\ Initialised(scales, IF deriv THEN "own" ELSE "null")
\* the second constructor called with these options
SecondConstructed(deriv, stats, l2, excl, one, smbr, xent, pdfs) ==
  LET ncfg == NnetConfig(deriv, stats)
      cfg == ChainConfig(l2, FALSE, 1, excl, one, smbr, xent, pdfs)
  IN  /\ Constructed("second", ncfg, cfg, SecondConstructor(ncfg, cfg, NumPdfs))
      /\ Initialised(NoScales, "nnet")

ConstructFirst ==
  /\ prob = "none" /\ pc = "idle"
  /\ \E deriv \in BOOLEAN, stats \in BOOLEAN, l2 \in L2Coefficients,
        excl \in BOOLEAN, one \in BOOLEAN, smbr \in BOOLEAN,
        xent \in XentCoefficients, pdfs \in SilencePdfLists :
       FirstConstructed(deriv, stats, l2, excl, one, smbr, xent, pdfs, NoScales)

ConstructSecond ==
  /\ prob = "none" /\ pc = "idle"
  /\ \E deriv \in BOOLEAN, stats \in BOOLEAN, l2 \in L2Coefficients,
        excl \in BOOLEAN, one \in BOOLEAN, smbr \in BOOLEAN,
        xent \in XentCoefficients, pdfs \in SilencePdfLists :
       SecondConstructed(deriv, stats, l2, excl, one, smbr, xent, pdfs)

\* the constructors called without silence options, with and without
\* objective scales
ConstructFirstPlain ==
  /\ prob = "none" /\ pc = "idle"
  /\ \E deriv \in BOOLEAN, l2 \in L2Coefficients, smbr \in BOOLEAN,
        xent \in XentCoefficients, scales \in ObjectiveScales :
       FirstConstructed(deriv, FALSE, l2, FALSE, FALSE, smbr, xent, <<>>, scales)
ConstructSecondPlain ==
  /\ prob = "none" /\ pc = "idle"
  /\ \E l2 \in L2Coefficients, smbr \in BOOLEAN, xent \in XentCoefficients :
       SecondConstructed(FALSE, TRUE, l2, FALSE, FALSE, smbr, xent, <<>>)

\* the kinds of supervision an example may carry
SupervisionKinds == {"compact", "e2e", "kl"}

\* what the network computes for an example: X with the parameters it was
\* given, zero once ScaleNnet(0.0, ...) has been applied to it
NnetOutput(nnet, X) == IF nnet = "zeroed" THEN Zeros(X.nr, X.nc) ELSE X

\* the call ProcessOutputs makes for the output named "output2" of an example
\* that has two outputs: one frame, compact supervision of weight 1
OtherCall(X) ==
  Call(chain_config_, Supervision(1, 1, 1, FALSE, NoMatrix), X,
       Results(Fin(2), TRUE, Ramp(1, NumPdfs, 0), Fin(-3), TRUE,
               Ramp(1, NumPdfs, 1), Fin(1), Fin(-2), TRUE, Ramp(1, NumPdfs, 0)),
       SilIndicesArgument(sil_indices_), nnet_config_.compute_deriv,
       UseXent(chain_config_),
       IF nnet_config_.compute_deriv THEN Ramp(1, NumPdfs, 2) ELSE NoMatrix,
       IF UseXent(chain_config_) THEN Ramp(1, NumPdfs, 1) ELSE NoMatrix)

\* Compute(chain_eg), for an example with the supervision output "output",
\* preceded, when two is TRUE, by a second one, "output2"
ComputeExample(Two) ==
  /\ prob = "constructed" /\ pc = "idle"
  /\ \E two \in Two, w \in 1..MaxWeight, T \in 1..MaxFrames, kind \in SupervisionKinds :
     LET rows == T
         dg == nnet_config_.compute_deriv
         xg == UseXent(chain_config_)
         Q == IF kind = "kl" THEN Ramp(rows, NumPdfs, 1) ELSE NoMatrix
         sup == Supervision(w, 1, T, kind = "e2e", Q)
         name == DriverFor(chain_config_, sup)
     IN
     /\ num_minibatches_processed_ + (IF two THEN 2 ELSE 1) <= MaxMinibatches
     /\ \E given \in Scores(rows, NumPdfs),
           dl \in {Fin(2), NaN},
           nl \in (IF name = "kl" THEN {Fin(0)} ELSE {Fin(-3)}),
           nok \in (IF name = "chain" /\ kind = "e2e" /\ (dg \/ xg) THEN BOOLEAN ELSE {TRUE}),
           garbage \in (IF name = "kl" /\ chain_config_.use_smbr_objective
                        THEN Garbage ELSE {Unset}) :
          LET X == NnetOutput(nnet_, given)
              c == Call(chain_config_, sup, X,
                        Results(dl, TRUE, Ramp(rows, NumPdfs, 0), nl, nok,
                                Ramp(rows, NumPdfs, 1), Fin(1), Fin(-2), TRUE,
                                Ramp(rows, NumPdfs, 0)),
                        SilIndicesArgument(sil_indices_), dg, xg,
                        IF dg THEN Ramp(rows, NumPdfs, 2) ELSE NoMatrix,
                        IF xg THEN Ramp(rows, NumPdfs, 1) ELSE NoMatrix)
              main == Output("output", c, garbage, NnetOutput(nnet_, Const(rows, NumPdfs, 1)))
              other == Output("output2", OtherCall(NnetOutput(nnet_, Const(1, NumPdfs, 1))),
                              Unset, NnetOutput(nnet_, Const(1, NumPdfs, 1)))
              st == ProcessOutputs(Members(nnet_config_, chain_config_, objective_scales_,
                                           sil_indices_),
                                   Progress(objf_info_, num_minibatches_processed_,
                                            <<AcceptInputs, ComputerRun>>, <<>>),
                                   IF two THEN <<other, main>> ELSE <<main>>)
          IN  /\ Returns(name, c, Run(name, c))
              /\ objf_info_' = st.objf_info
              /\ num_minibatches_processed_' = st.num_minibatches_processed
              /\ computer' = st.computer \o (IF dg THEN <<ComputerRun>> ELSE <<>>)
              /\ pushed' = st.pushed
              /\ deriv_' = (IF dg /\ deriv_nnet_ = "own" THEN "gradient" ELSE deriv_)
              /\ last_call' = "Compute"
              /\ UNCHANGED <<object, objective_scales_, deriv_nnet_, nnet_>>

\* Reset()
Reset ==
  /\ prob = "constructed" /\ pc = "idle" /\ last_call # "Reset"
  /\ num_minibatches_processed_' = 0
  /\ objf_info_' = InfoCleared(objf_info_)
  /\ deriv_' = (IF deriv_nnet_ = "own" THEN "zero" ELSE deriv_)
  /\ nnet_' = (IF deriv_nnet_ = "nnet" THEN "zeroed" ELSE nnet_)
  /\ last_call' = "Reset"
  /\ UNCHANGED <<object, call, objective_scales_, deriv_nnet_, computer, pushed>>

\* the first Compute on an object, for an example with one output
FirstCompute == last_call = "constructor" /\ ComputeExample({FALSE})
\* any Compute, for an example with one or two outputs
Compute == ComputeExample(BOOLEAN)

ProbNext == ConstructFirst \/ ConstructSecond \/ FirstCompute \/ Release

ProbSpec == Init /\ [][ProbNext]_vars

StatsNext == ConstructFirstPlain \/ ConstructSecondPlain \/ Compute \/ Reset \/ Release

StatsSpec == Init /\ [][StatsNext]_vars

\* ============================================================== claims
Returned(name) == pc = "returned" /\ driver = name
\* the three MMI drivers: ComputeChainObjfAndDeriv (compact and e2e) and ComputeKLObjfAndDeriv
ReturnedMMI == pc = "returned" /\ driver \in {"chain", "kl"}
CompactOrKL == Returned("kl") \/ (Returned("chain") /\ ~supervision.e2e)

\* the generic numerator of this call succeeds: Forward is finite, and Backward
\* (run only after a finite Forward and with a buffer to write to) returns true
GenericNumeratorOk ==
  /\ MinusSelfIsZero(fb.num_logprob)
  /\ (deriv_given \/ xent_given) => fb.num_back_ok

SumOfSquares(X) == SumOver([p \in DOMAIN X.e |-> X.e[p] * X.e[p]], DOMAIN X.e)
SumOfExp(X) == SumOver([p \in DOMAIN X.e |-> 2 ^ X.e[p]], DOMAIN X.e)
Scaled(X, a) == [X EXCEPT !.e = [p \in DOMAIN X.e |-> a * X.e[p]]]
Plus(A, B) == [A EXCEPT !.e = [p \in DOMAIN A.e |-> A.e[p] + B.e[p]]]
ExpOf(X) == [X EXCEPT !.e = [p \in DOMAIN X.e |-> 2 ^ X.e[p]]]

\* C1: in the MMI drivers the failure branch runs exactly when the computed
\* objf is not finite, or the denominator Backward returned false, or (e2e) the
\* generic numerator failed; when it runs, both given buffers become all-zero
\* and objf becomes -10 * weight; when it does not run, objf and the buffers
\* are left as they were.
C1_FailureBranch ==
  ReturnedMMI =>
    LET computed == hist.at_check.objf
        cond == \/ ~(computed.k = "fin")
                \/ (deriv_given /\ ~fb.den_ok)
                \/ (driver = "chain" /\ supervision.e2e /\ ~GenericNumeratorOk)
    IN  /\ hist.failed <=> cond
        /\ hist.failed =>
             /\ deriv_given => IsZero(hist.after_check.deriv)
             /\ xent_given => IsZero(hist.after_check.xent)
             /\ hist.after_check.objf = Fin(-10 * weight.v)
        /\ ~hist.failed => hist.after_check = hist.at_check
C1_Witness ==
  /\ Returned("chain") /\ supervision.e2e /\ hist.failed
  /\ hist.at_check.objf.k = "fin" /\ fb.den_ok /\ ~fb.num_back_ok
  /\ deriv_given /\ xent_given
  /\ ~IsZero(hist.at_check.deriv) /\ ~IsZero(hist.at_check.xent)

\* C2 (as stated): after a numerical failure in an MMI driver, at return dX is
\* all-zero, dX_xent is all-zero and objf = -10 * weight, for every option
\* setting.
C2_ZeroAtReturn ==
  (ReturnedMMI /\ hist.failed) =>
    /\ deriv_given => IsZero(nnet_output_deriv)
    /\ xent_given => IsZero(xent_output_deriv)
    /\ objf = Fin(-10 * weight.v)
\* C2 (amended): after a numerical failure in an MMI driver, at return dX_xent
\* is all-zero and objf = -10 * weight; dX is all-zero when l2_regularize = 0
\* or (e2e) the generic numerator failed, and otherwise holds the regulariser's
\* contribution -supervision.weight * l2_regularize * X and nothing else.
C2_ZeroUpToRegulariser ==
  (ReturnedMMI /\ hist.failed) =>
    LET regularised == /\ opts.l2_regularize # 0
                       /\ (driver = "chain" /\ supervision.e2e) => GenericNumeratorOk
    IN  /\ xent_given => IsZero(xent_output_deriv)
        /\ objf = Fin(-10 * weight.v)
        /\ deriv_given =>
             nnet_output_deriv =
               IF regularised
               THEN Scaled(nnet_output, -supervision.weight * opts.l2_regularize)
               ELSE Zeros(nnet_output.nr, nnet_output.nc)
C2_Witness ==
  /\ ReturnedMMI /\ hist.failed /\ deriv_given /\ xent_given
  /\ opts.l2_regularize # 0 /\ ~IsZero(nnet_output_deriv)

\* C3: on return from every driver, on the success and the failure path alike,
\* weight = supervision.weight * num_sequences * frames_per_sequence.
C3_Weight ==
  pc = "returned" =>
    weight = Fin(supervision.weight * supervision.num_sequences
                   * supervision.frames_per_sequence)
C3_Witness ==
  /\ Returned("smbr") /\ hist.failed
  /\ supervision.weight = MaxWeight /\ supervision.num_sequences = MaxSeq
  /\ supervision.frames_per_sequence = MaxFrames
  /\ weight = Fin(MaxWeight * MaxSeq * MaxFrames)

\* C4: when dX is given, what dX holds on return does not depend on what it
\* held on entry: the same call with any other entry contents returns the same
\* dX (every driver; SMBR with mmi_factor = 0 and with mmi_factor != 0).
C4_DerivIndependentOfEntry ==
  (pc = "returned" /\ deriv_given) =>
    \A d \in DerivEntries(nnet_output.nr, nnet_output.nc) :
      Run(driver, [TheCall EXCEPT !.deriv = d]).deriv = nnet_output_deriv
C4_Witness ==
  /\ Returned("smbr") /\ deriv_given /\ opts.mmi_factor # 0 /\ ~hist.failed
  /\ ~IsZero(entry_deriv) /\ ~IsZero(nnet_output_deriv)

\* the same call with other buffers given (a buffer newly given starts
\* all-zero, with Backward returning true where it was not run before)
WithBuffers(dg, xg) ==
  [TheCall EXCEPT !.deriv_given = dg, !.xent_given = xg,
     !.deriv = IF dg THEN Zeros(nnet_output.nr, nnet_output.nc) ELSE NoMatrix,
     !.xent = IF xg THEN Zeros(nnet_output.nr, nnet_output.nc) ELSE NoMatrix]

\* C5: on the success path ComputeChainObjfAndDeriv (compact and e2e) returns
\* objf = num_logprob_weighted - supervision.weight * den_logprob, the same
\* value whether or not dX and dX_xent are given.
C5_ObjfOnSuccess ==
  (Returned("chain") /\ ~hist.failed) =>
    /\ objf = FSub(fb.num_logprob, FMul(Fin(supervision.weight), fb.den_logprob))
    /\ \A dg \in BOOLEAN, xg \in BOOLEAN :
         LET r == Run("chain", WithBuffers(dg, xg))
         IN  ~r.failed => r.objf = objf
C5_Witness ==
  /\ Returned("chain") /\ ~hist.failed /\ deriv_given /\ xent_given
  /\ supervision.weight = MaxWeight
  /\ fb.den_logprob = Fin(2) /\ fb.num_logprob = Fin(-3)
  /\ objf = Fin(-3 - 2 * MaxWeight)

\* C6: when dX_xent is given to ComputeChainObjfAndDeriv and the call
\* succeeds, on return dX_xent has the shape of X whatever shape it had on
\* entry and holds the weighted numerator posterior alone (no denominator and
\* no L2 contribution), the same whether or not dX is given.
C6_XentIsNumeratorPosterior ==
  (Returned("chain") /\ xent_given /\ ~hist.failed) =>
    /\ SameDim(xent_output_deriv, nnet_output)
    /\ xent_output_deriv = fb.num_post
    /\ \A dg \in BOOLEAN :
         LET r == Run("chain", [WithBuffers(dg, TRUE) EXCEPT !.xent = entry_xent])
         IN  ~r.failed => r.xent = xent_output_deriv
C6_Witness ==
  /\ Returned("chain") /\ xent_given /\ deriv_given /\ ~hist.failed
  /\ ~SameDim(entry_xent, nnet_output)
  /\ opts.l2_regularize # 0
  /\ xent_output_deriv # nnet_output_deriv
  /\ ~IsZero(xent_output_deriv)

IsDenStep(e) == e \in {"den.ctor", "den.Forward", "den.Backward", "den.dtor"}
IsNumStep(e) == e \in {"num.ctor", "num.Forward", "num.Backward", "num.dtor"}

C8_SquaredRegulariser ==
  CompactOrKL =>
    LET scale == supervision.weight * opts.l2_regularize
    IN  /\ opts.l2_regularize = 0 =>
             /\ l2_term = Fin(0)
             /\ nnet_output_deriv = hist.after_check.deriv
        /\ opts.l2_regularize # 0 =>
             /\ l2_term = Fin(-((scale * SumOfSquares(nnet_output)) \div 2))
             /\ deriv_given =>
                  nnet_output_deriv = Plus(hist.after_check.deriv, Scaled(nnet_output, -scale))
             /\ ~deriv_given => nnet_output_deriv = NoMatrix
        /\ xent_output_deriv = hist.after_check.xent
C8_Witness ==
  /\ Returned("kl") /\ opts.l2_regularize # 0 /\ ~deriv_given /\ xent_given
  /\ supervision.weight = MaxWeight
  /\ l2_term.k = "fin" /\ l2_term.v < 0
  /\ ~IsZero(xent_output_deriv)

C10_SmbrRegulariser ==
  Returned("smbr") =>
    LET scale == supervision.weight * opts.l2_regularize
        before == hist.after_check.deriv
    IN  /\ opts.l2_regularize = 0 =>
             l2_term = Fin(0) /\ nnet_output_deriv = before
        /\ (opts.l2_regularize # 0 /\ ~opts.norm_regularize) =>
             /\ l2_term = Fin(-((scale * SumOfSquares(nnet_output)) \div 2))
             /\ nnet_output_deriv =
                  IF deriv_given THEN Plus(before, Scaled(nnet_output, -scale)) ELSE before
        /\ (opts.l2_regularize # 0 /\ opts.norm_regularize) =>
             /\ l2_term = Fin(-scale * SumOfExp(nnet_output))
             /\ nnet_output_deriv =
                  IF deriv_given THEN Plus(before, Scaled(ExpOf(nnet_output), -scale))
                  ELSE before
        /\ xent_output_deriv = hist.after_check.xent
C10_Witness ==
  /\ Returned("smbr") /\ opts.l2_regularize # 0 /\ opts.norm_regularize /\ deriv_given
  /\ l2_term = Fin(-supervision.weight * opts.l2_regularize * SumOfExp(nnet_output))
  /\ l2_term # Fin(-((supervision.weight * opts.l2_regularize
                        * SumOfSquares(nnet_output)) \div 2))

\* C11: on the success path ComputeChainSmbrObjfAndDeriv returns
\* objf = supervision.weight * smbr_objf and mmi_objf = supervision.weight *
\* den_logprob_negated + mmi_factor * (numerator Forward); with mmi_factor = 0
\* mmi_objf is supervision.weight * den_logprob_negated alone.
C11_SmbrObjectives ==
  (Returned("smbr") /\ ~hist.failed) =>
    LET w == Fin(supervision.weight)
    IN  /\ objf = FMul(w, fb.smbr_objf)
        /\ mmi_objf = FAdd(FMul(w, fb.den_logprob_negated),
                           FMul(Fin(opts.mmi_factor), fb.num_logprob))
        /\ opts.mmi_factor = 0 => mmi_objf = FMul(w, fb.den_logprob_negated)
C11_Witness ==
  /\ Returned("smbr") /\ ~hist.failed /\ opts.mmi_factor = 0
  /\ supervision.weight = MaxWeight /\ fb.num_logprob = Fin(-3)
  /\ mmi_objf = Fin(-2 * MaxWeight) /\ objf = Fin(MaxWeight)

\* C12: in ComputeChainSmbrObjfAndDeriv the failure branch runs exactly when
\* objf + mmi_objf is not finite or BackwardSmbr returned false; it sets the
\* buffers given to all-zero, mmi_objf to -mmi_factor * 10 * weight and objf
\* to 0; in every other case the computed values and the buffers are kept.
C12_SmbrFailureBranch ==
  Returned("smbr") =>
    LET before == hist.at_check
        after == hist.after_check
        total == FAdd(before.objf, before.mmi_objf)
    IN  /\ hist.failed <=> (~MinusSelfIsZero(total) \/ (deriv_given /\ ~fb.smbr_ok))
        /\ hist.failed =>
             /\ deriv_given => IsZero(after.deriv)
             /\ xent_given => IsZero(after.xent)
             /\ mmi_objf = Fin(-opts.mmi_factor * 10 * weight.v)
             /\ objf = Fin(0)
        /\ ~hist.failed =>
             /\ after = before
             /\ objf = before.objf /\ mmi_objf = before.mmi_objf
C12_Witness ==
  /\ Returned("smbr") /\ hist.failed /\ deriv_given /\ xent_given
  /\ MinusSelfIsZero(FAdd(hist.at_check.objf, hist.at_check.mmi_objf)) /\ ~fb.smbr_ok
  /\ opts.mmi_factor = 0 /\ mmi_objf = Fin(0) /\ objf = Fin(0)
  /\ hist.at_check.objf # Fin(0)
  /\ ~IsZero(hist.at_check.deriv) /\ ~IsZero(hist.at_check.xent)

\* the columns a silence index vector marks with -1
MarkedColumns(sil) == {i \in DOMAIN sil : sil[i] = -1}
\* M with the columns in cols zeroed by hand
WithColumnsZeroed(M, cols) ==
  [M EXCEPT !.e = [p \in DOMAIN M.e |-> IF p[2] \in cols THEN 0 ELSE M.e[p]]]

\* C13: in ComputeChainSmbrObjfAndDeriv with a silence index vector (-1 at
\* the silence columns, i elsewhere) and exclude_silence set, the accuracy
\* matrix given to the SMBR denominator is the numerator posterior with the
\* columns marked -1 zeroed and every other column unchanged; a call with no
\* vector whose numerator posterior had those columns zeroed by hand gives the
\* SMBR denominator the same matrix.
C13_ExcludeSilence ==
  (Returned("smbr") /\ sil_indices # NoIndices /\ opts.exclude_silence) =>
    LET masked == WithColumnsZeroed(fb.num_post, MarkedColumns(sil_indices))
        by_hand == [TheCall EXCEPT !.sil_indices = NoIndices, !.fb.num_post = masked]
    IN  /\ hist.accuracy = masked
        /\ \A p \in DOMAIN fb.num_post.e :
             hist.accuracy.e[p] = IF sil_indices[p[2]] = -1 THEN 0 ELSE fb.num_post.e[p]
        /\ Run("smbr", by_hand).accuracy = hist.accuracy
C13_Witness ==
  /\ Returned("smbr") /\ sil_indices # NoIndices /\ opts.exclude_silence
  /\ MarkedColumns(sil_indices) # {}
  /\ hist.accuracy # fb.num_post
  /\ \E p \in DOMAIN hist.accuracy.e : hist.accuracy.e[p] # 0

\* C16: in ComputeChainObjfAndDerivE2e, when the generic numerator's Forward
\* returns a non-finite log-likelihood, its Backward is not run, numerator_ok
\* is false, and on return objf = -10 * weight, l2_term = 0 even if
\* l2_regularize != 0, and the buffers given are all-zero.
C16_E2eNumeratorFailure ==
  (Returned("chain") /\ supervision.e2e /\ ~MinusSelfIsZero(fb.num_logprob)) =>
    /\ \A i \in DOMAIN hist.trace : hist.trace[i] # "num.Backward"
    /\ ~hist.numerator_ok
    /\ hist.failed
    /\ objf = Fin(-10 * weight.v)
    /\ l2_term = Fin(0)
    /\ deriv_given => IsZero(nnet_output_deriv)
    /\ xent_given => IsZero(xent_output_deriv) /\ SameDim(xent_output_deriv, nnet_output)
C16_Witness ==
  /\ Returned("chain") /\ supervision.e2e /\ ~MinusSelfIsZero(fb.num_logprob)
  /\ MinusSelfIsZero(fb.den_logprob) /\ fb.den_ok
  /\ opts.l2_regularize # 0 /\ deriv_given /\ xent_given
  /\ ~IsZero(hist.at_check.deriv) /\ ~IsZero(nnet_output)
  /\ l2_term = Fin(0) /\ IsZero(nnet_output_deriv)

\* C17: ComputeKLObjfAndDeriv stops at an assertion, with objf, l2_term,
\* weight, dX and dX_xent not written, whenever the target posteriors have no
\* rows, or rows(X) != num_sequences * frames_per_sequence, or
\* rows(Q) != rows(X); a call that passes the three checks does not stop there.
C17_KLAssertions ==
  driver = "kl" =>
    LET Q == supervision.numerator_post_targets
        bad == \/ Q.nr = 0
               \/ nnet_output.nr # supervision.num_sequences * supervision.frames_per_sequence
               \/ Q.nr # nnet_output.nr
    IN  /\ pc = "aborted" <=> bad
        /\ pc = "returned" <=> ~bad
        /\ pc = "aborted" =>
             /\ objf = Unset /\ l2_term = Unset /\ weight = Unset
             /\ nnet_output_deriv = entry_deriv
             /\ xent_output_deriv = entry_xent
C17_Witness ==
  /\ driver = "kl" /\ pc = "aborted"
  /\ supervision.numerator_post_targets.nr = nnet_output.nr
  /\ nnet_output.nr = supervision.num_sequences * supervision.frames_per_sequence + 1
  /\ deriv_given /\ ~IsZero(nnet_output_deriv)
  /\ xent_given /\ ~IsZero(xent_output_deriv)
  /\ weight = Unset

\* the silence pdfs the object was configured with, as columns of X
SilenceColumns == {i \in 0..(NumPdfs - 1) : \E k \in DOMAIN chain_config_.silence_pdfs :
                                              chain_config_.silence_pdfs[k] = i}
\* the sum of row r of M over the columns in cols
RowSumOver(M, r, cols) ==
  SumOver([p \in DOMAIN M.e |-> IF p[1] = r /\ p[2] \in cols THEN M.e[p] ELSE 0], DOMAIN M.e)
\* every silence column holds the row's sum over the silence columns, every
\* other column its numerator posterior
SilenceSummed(A) ==
  \A p \in DOMAIN fb.num_post.e :
    A.e[p] = IF p[2] \in SilenceColumns
             THEN RowSumOver(fb.num_post, p[1], SilenceColumns)
             ELSE fb.num_post.e[p]

\* C14 (as stated): when ProcessOutputs calls ComputeChainSmbrObjfAndDeriv
\* with a silence index vector and one_silence_class set (exclude_silence
\* unset), the accuracy matrix given to the SMBR denominator has in each
\* silence column the row's sum of numerator posteriors over the silence
\* columns, and every other column is unchanged.
C14_OneSilenceClass ==
  (Returned("smbr") /\ prob = "constructed" /\ heap_ok /\ sil_indices # NoIndices
     /\ opts.one_silence_class /\ ~opts.exclude_silence) =>
    SilenceSummed(hist.accuracy)
\* C14 (first constructor): the same, for an object built by the constructor
\* taking const Nnet &, whose vector for one_silence_class holds pdf at the
\* silence pdfs and -1 elsewhere.
C14_OneSilenceClassOfFirst ==
  (Returned("smbr") /\ prob = "constructed" /\ heap_ok /\ ctor = "first"
     /\ sil_indices # NoIndices
     /\ opts.one_silence_class /\ ~opts.exclude_silence) =>
    SilenceSummed(hist.accuracy)
\* C14: the failing call: an object built by the constructor taking Nnet *,
\* one_silence_class set, two silence pdfs out of more; the non-silence
\* columns are the ones that get a sum
C14_Failing ==
  /\ Returned("smbr") /\ prob = "constructed" /\ heap_ok /\ ctor = "second"
  /\ chain_config_.silence_pdfs = <<0, 1>>
  /\ opts.one_silence_class /\ ~opts.exclude_silence
  /\ sil_indices # NoIndices /\ SilenceColumns # {}
  /\ ~SilenceSummed(hist.accuracy)

\* C15: ComputeKLObjfAndDeriv runs no numerator forward-backward; on the
\* success path objf = -supervision.weight * den_logprob, dX_xent (when
\* given) is supervision.weight * Q, and dX (when given) is the denominator's
\* Backward contribution plus supervision.weight * Q plus the L2 contribution,
\* the same whether or not dX_xent is given.
C15_KLObjective ==
  (Returned("kl") /\ ~hist.failed) =>
    LET w == supervision.weight
        Q == supervision.numerator_post_targets
        l2 == Scaled(nnet_output, -w * opts.l2_regularize)
    IN  /\ \A i \in DOMAIN hist.trace : ~IsNumStep(hist.trace[i])
        /\ objf = FNeg(FMul(Fin(w), fb.den_logprob))
        /\ xent_given => xent_output_deriv = Scaled(Q, w)
        /\ deriv_given =>
             /\ nnet_output_deriv = Plus(Plus(Scaled(fb.den_post, -w), Scaled(Q, w)), l2)
             /\ \A xg \in BOOLEAN :
                  Run("kl", [WithBuffers(TRUE, xg) EXCEPT !.deriv = entry_deriv]).deriv
                    = nnet_output_deriv
C15_Witness ==
  /\ Returned("kl") /\ ~hist.failed /\ deriv_given /\ ~xent_given
  /\ supervision.weight = MaxWeight /\ opts.l2_regularize # 0
  /\ objf = Fin(-2 * MaxWeight)
  /\ ~IsZero(nnet_output) /\ ~IsZero(nnet_output_deriv)

\* the configuration asks for a silence treatment in SMBR
SilenceTreatmentAsked(cfg) ==
  cfg.use_smbr_objective /\ (cfg.exclude_silence \/ cfg.one_silence_class)

\* C18 (as stated): a configuration with use_smbr_objective and
\* (exclude_silence or one_silence_class) but an empty silence_pdfs_str is
\* rejected by every constructor, so ComputeChainSmbrObjfAndDeriv is never
\* called with exclude_silence or one_silence_class set and a NULL silence
\* index vector.
C18_EmptySilenceRejected ==
  /\ (prob = "constructed" /\ SilenceTreatmentAsked(chain_config_)) =>
       chain_config_.silence_pdfs # <<>>
  /\ (Returned("smbr") /\ prob = "constructed"
        /\ (opts.exclude_silence \/ opts.one_silence_class)) =>
       sil_indices # NoIndices
\* C18 (first constructor): the same holds of objects built by the
\* constructor taking const Nnet &.
C18_EmptySilenceRejectedByFirst ==
  ctor = "first" =>
    /\ (SilenceTreatmentAsked(chain_config_) /\ chain_config_.silence_pdfs = <<>>
          /\ (nnet_config_.compute_deriv \/ ~nnet_config_.store_component_stats)) =>
         prob = "error"
    /\ (Returned("smbr") /\ (opts.exclude_silence \/ opts.one_silence_class)) =>
         sil_indices # NoIndices
\* C18: the failing call: the constructor taking Nnet * accepted the
\* configuration and the SMBR driver was called with exclude_silence set and
\* no vector, so the accuracy matrix is the unmasked numerator posterior
C18_Failing ==
  /\ Returned("smbr") /\ prob = "constructed" /\ ctor = "second"
  /\ chain_config_.silence_pdfs = <<>>
  /\ opts.exclude_silence /\ sil_indices = NoIndices
  /\ hist.accuracy = fb.num_post

\* C19 (as stated): whenever a constructor builds a silence index vector,
\* for both constructors and for exclude_silence and one_silence_class alike,
\* the vector has length P and entry i is -1 if i is a listed silence pdf and
\* i otherwise.
C19_MinusOneAtSilence ==
  (prob = "constructed" /\ sil_indices_ # NoIndices) =>
    /\ DOMAIN sil_indices_ = 0..(NumPdfs - 1)
    /\ \A i \in DOMAIN sil_indices_ :
         sil_indices_[i] = IF i \in SilenceColumns THEN -1 ELSE i
\* C19 (amended): a vector is built by the constructor taking const Nnet &
\* exactly when use_smbr_objective and (exclude_silence or one_silence_class)
\* are set, and by the constructor taking Nnet * exactly when silence_pdfs_str
\* is not empty; it has length P. Entry i is -1 at the listed silence pdfs and
\* i elsewhere, except for the first constructor with one_silence_class set
\* and exclude_silence unset, where entry i is i at the listed silence pdfs
\* and -1 elsewhere.
C19_SilIndicesByConstructor ==
  prob = "constructed" =>
    LET built == sil_indices_ # NoIndices
        keeps_silence == ctor = "first" /\ ~chain_config_.exclude_silence
    IN  /\ ctor = "first" => (built <=> SilenceTreatmentAsked(chain_config_))
        /\ ctor = "second" => (built <=> chain_config_.silence_pdfs # <<>>)
        /\ built =>
             /\ DOMAIN sil_indices_ = 0..(NumPdfs - 1)
             /\ \A i \in DOMAIN sil_indices_ :
                  sil_indices_[i] = IF (i \in SilenceColumns) = keeps_silence THEN i ELSE -1
C19_Witness ==
  /\ prob = "constructed" /\ ctor = "first" /\ heap_ok
  /\ chain_config_.one_silence_class /\ ~chain_config_.exclude_silence
  /\ chain_config_.silence_pdfs = <<0, 1>>
  /\ sil_indices_ = [i \in 0..(NumPdfs - 1) |-> IF i \in {0, 1} THEN i ELSE -1]

\* the call ProcessOutputs would have made with xent_regularize = v and
\* everything else the same
WithXentRegularize(v) ==
  [TheCall EXCEPT !.opts.xent_regularize = v,
                  !.xent_given = (v # 0),
                  !.xent = IF v # 0 THEN Ramp(nnet_output.nr, nnet_output.nc, 1) ELSE NoMatrix]
\* two returns agree on objf, l2_term, weight and dX
SameReturn(r, q) ==
  /\ r.objf = q.objf /\ r.l2_term = q.l2_term
  /\ r.weight = q.weight /\ r.deriv = q.deriv
\* the generic numerator's Backward, which fails, runs only because dX_xent is given
BackwardOnlyForXent ==
  /\ driver = "chain" /\ supervision.e2e /\ ~deriv_given
  /\ MinusSelfIsZero(fb.num_logprob) /\ ~fb.num_back_ok

\* C20 (as stated): ProcessOutputs passes dX_xent iff xent_regularize != 0
\* and dX iff compute_deriv; the value of xent_regularize has no other effect
\* on the objf, l2_term, weight or dX the driver returns.
C20_XentOnlySelectsBuffer ==
  (pc = "returned" /\ prob = "constructed") =>
    /\ xent_given <=> chain_config_.xent_regularize # 0
    /\ deriv_given <=> nnet_config_.compute_deriv
    /\ \A v \in XentCoefficients, u \in XentCoefficients :
         SameReturn(Run(driver, WithXentRegularize(v)), Run(driver, WithXentRegularize(u)))
\* C20 (amended): ProcessOutputs passes dX_xent iff xent_regularize != 0 and
\* dX iff compute_deriv; weight never depends on xent_regularize, and objf,
\* l2_term and dX do not either, except on the e2e path with compute_deriv
\* false: there the generic numerator's Backward runs only when dX_xent is
\* given, and if it returns false the call with xent_regularize != 0 takes the
\* failure branch (objf = -10 * weight, l2_term = 0) while the call with
\* xent_regularize = 0 does not fail on the numerator's account.
C20_XentSelectsBufferAndBackward ==
  (pc = "returned" /\ prob = "constructed") =>
    LET off == Run(driver, WithXentRegularize(0))
        on == Run(driver, WithXentRegularize(1))
    IN  /\ xent_given <=> chain_config_.xent_regularize # 0
        /\ deriv_given <=> nnet_config_.compute_deriv
        /\ off.weight = on.weight
        /\ ~BackwardOnlyForXent => SameReturn(off, on)
        /\ BackwardOnlyForXent =>
             /\ on.failed /\ ~on.numerator_ok
             /\ on.objf = Fin(-10 * on.weight.v) /\ on.l2_term = Fin(0)
             /\ off.numerator_ok
             /\ off.failed <=> ~MinusSelfIsZero(fb.den_logprob)
             /\ off.l2_term = Fin(-((supervision.weight * opts.l2_regularize
                                       * SumOfSquares(nnet_output)) \div 2))
C20_Witness ==
  /\ pc = "returned" /\ prob = "constructed" /\ BackwardOnlyForXent
  /\ xent_given /\ chain_config_.xent_regularize # 0 /\ ~nnet_config_.compute_deriv
  /\ MinusSelfIsZero(fb.den_logprob) /\ opts.l2_regularize # 0
  /\ hist.failed /\ objf = Fin(-10 * weight.v) /\ l2_term = Fin(0)
  /\ Run(driver, WithXentRegularize(0)).objf = Fin(-3 - 2 * supervision.weight)

\* C21: every supervision output ProcessOutputs handles goes to one driver,
\* chosen by the supervision kind and use_smbr_objective alone: the KL driver
\* when there are target posteriors, else the SMBR driver when
\* use_smbr_objective is set, else ComputeChainObjfAndDeriv, which runs the
\* generic numerator for an e2e supervision and the compact one otherwise;
\* the generic numerator never runs for a non-e2e supervision and the compact
\* numerator never runs for an e2e supervision.
C21_OneDriverPerOutput ==
  pc = "returned" =>
    /\ driver = (IF supervision.numerator_post_targets.nr > 0 THEN "kl"
                 ELSE IF chain_config_.use_smbr_objective THEN "smbr" ELSE "chain")
    /\ driver = "chain" =>
         hist.numerator = (IF supervision.e2e THEN "generic" ELSE "compact")
    /\ hist.numerator = "generic" => supervision.e2e
    /\ hist.numerator = "compact" => ~supervision.e2e
\* the SMBR driver has run the compact numerator on an e2e supervision
C21_Failing ==
  /\ Returned("smbr") /\ prob = "constructed" /\ chain_config_.use_smbr_objective
  /\ supervision.e2e /\ supervision.numerator_post_targets.nr = 0
  /\ hist.numerator = "compact"

\* the same call with and without a buffer for the cross-entropy derivative
WithXentBuffer == [TheCall EXCEPT !.xent_given = TRUE]
WithoutXentBuffer == [TheCall EXCEPT !.xent_given = FALSE, !.xent = NoMatrix]
\* what the call of the state has returned
TheReturn == [objf |-> objf, l2_term |-> l2_term, weight |-> weight,
              deriv |-> nnet_output_deriv]

\* C22: for ComputeChainObjfAndDeriv (compact and e2e) and
\* ComputeKLObjfAndDeriv called with dX, the dX, objf, l2_term and weight
\* returned are the same whether dX_xent is given or NULL: writing the
\* numerator posterior into dX_xent and adding that to dX gives the dX that
\* accumulating the posterior directly into dX gives.
C22_XentBufferIrrelevant ==
  (ReturnedMMI /\ deriv_given) =>
    /\ SameReturn(TheReturn, Run(driver, WithXentBuffer))
    /\ SameReturn(TheReturn, Run(driver, WithoutXentBuffer))
C22_Witness ==
  /\ Returned("chain") /\ deriv_given /\ xent_given /\ ~hist.failed
  /\ supervision.weight = 2
  /\ ~IsZero(xent_output_deriv)
  /\ nnet_output_deriv = Run("chain", WithoutXentBuffer).deriv
  /\ nnet_output_deriv # hist.at_check.xent

\* the call of the state with other silence options and another silence vector
WithSilence(excl, one, sil) ==
  [TheCall EXCEPT !.opts.exclude_silence = excl, !.opts.one_silence_class = one,
                  !.sil_indices = sil]

\* C23: in ComputeChainSmbrObjfAndDeriv the silence handling changes only the
\* accuracy matrix given to the SMBR denominator: dX_xent is the numerator
\* posterior and the part of dX that precedes the denominator's Backward is
\* mmi_factor times the numerator posterior, both taken before the masking,
\* so for the same results of the forward-backward objects they are the same
\* for every exclude_silence, one_silence_class and silence index vector.
C23_SilenceOnlyInAccuracy ==
  Returned("smbr") =>
    /\ xent_given => hist.at_check.xent = fb.num_post
    /\ deriv_given =>
         hist.at_check.deriv =
           AddMat(Scaled(fb.num_post, opts.mmi_factor), supervision.weight, fb.smbr_post)
    /\ \A excl \in BOOLEAN, one \in BOOLEAN, sil \in SilIndices :
         LET q == ComputeChainSmbrObjfAndDeriv(WithSilence(excl, one, sil))
         IN  /\ q.at_check.xent = hist.at_check.xent
             /\ q.at_check.deriv = hist.at_check.deriv
             /\ q.xent = xent_output_deriv
             /\ q.deriv = nnet_output_deriv
C23_Witness ==
  /\ Returned("smbr") /\ deriv_given /\ xent_given /\ ~hist.failed
  /\ opts.mmi_factor = 1 /\ opts.exclude_silence /\ sil_indices # NoIndices
  /\ hist.accuracy # fb.num_post
  /\ xent_output_deriv = fb.num_post
  /\ ComputeChainSmbrObjfAndDeriv(WithSilence(FALSE, FALSE, NoIndices)).accuracy = fb.num_post

\* the columns a silence index vector keeps (entry not -1)
KeptColumns(sil) == {i \in DOMAIN sil : sil[i] >= 0}
\* the zeroing: the columns marked -1 become zero
Zeroing(M, sil) == WithColumnsZeroed(M, MarkedColumns(sil))
\* the sum-and-broadcast: every column the vector keeps receives the row's
\* sum over the columns the vector keeps
SumAndBroadcast(M, sil) ==
  [M EXCEPT !.e = [p \in DOMAIN M.e |->
     IF p[2] \in KeptColumns(sil) THEN RowSumOver(M, p[1], KeptColumns(sil))
     ELSE M.e[p]]]

SilenceParsed ==
  /\ chain_config_.silence_pdfs # <<>>
  /\ \/ /\ ctor = "first"
        /\ nnet_config_.compute_deriv \/ ~nnet_config_.store_component_stats
        /\ chain_config_.use_smbr_objective
        /\ chain_config_.exclude_silence \/ chain_config_.one_silence_class
     \/ /\ ctor = "second"
        /\ nnet_config_.store_component_stats /\ ~nnet_config_.compute_deriv
\* the listed pdfs that are not in [0, num_pdfs)
PdfsOutOfRange ==
  {k \in DOMAIN chain_config_.silence_pdfs :
     chain_config_.silence_pdfs[k] \notin 0..(NumPdfs - 1)}

\* C25: every silence pdf a NnetChainComputeProb constructor accepts without
\* an error lies in [0, P), so every write indices[pdf] is inside the vector
\* of length P; a pdf outside [0, P), pdf = P and negative pdfs included, is
\* rejected with an error.
C25_SilencePdfsInRange ==
  SilenceParsed =>
    /\ heap_ok
    /\ prob = "constructed" => PdfsOutOfRange = {}
    /\ PdfsOutOfRange # {} => prob = "error"
\* a constructor has accepted pdf = num_pdfs, or a negative pdf, and has
\* written outside the vector
C25_Failing ==
  /\ SilenceParsed /\ prob = "constructed" /\ ~heap_ok
  /\ chain_config_.silence_pdfs \in {<<NumPdfs>>, <<-1>>}

\* C26: every value ProcessOutputs adds to an output's accumulated auxiliary
\* objectives was written by the driver called for that output in the same
\* iteration: whatever the supervision kind and use_smbr_objective are,
\* tot_mmi_objf is pushed into aux_objfs only after a driver has assigned it,
\* and as many auxiliary values are added as auxiliary scales are stored for
\* the output.
C26_AuxObjfsAssigned ==
  \A i \in DOMAIN pushed :
    /\ Len(pushed[i].aux_objfs) = 2 => pushed[i].mmi_assigned
    /\ Len(pushed[i].aux_objfs) = Len(objf_info_[pushed[i].name].aux_objf_scales)
\* the KL driver was called with use_smbr_objective set: tot_mmi_objf was
\* pushed and accumulated though no driver wrote it (here it held a NaN)
C26_Failing ==
  /\ Returned("kl") /\ chain_config_.use_smbr_objective /\ pushed # <<>>
  /\ ~pushed[Len(pushed)].mmi_assigned
  /\ Len(pushed[Len(pushed)].aux_objfs) = 2
  /\ objf_info_["output"].tot_aux_objfs[2] = NaN

\* the sum, over the entries of this output name, of scale * the driver's
\* weight (what = "weight") or of scale * the driver's objf (what = "objf")
RECURSIVE ScaledSum(_, _, _, _)
ScaledSum(entries, name, scale, what) ==
  IF entries = <<>> THEN Fin(0)
  ELSE FAdd(IF Head(entries).name # name THEN Fin(0)
            ELSE FMul(IF what = "weight" THEN Head(entries).weight ELSE Head(entries).objf,
                      Fin(scale)),
            ScaledSum(Tail(entries), name, scale, what))
\* the total stored for this name before the call: zero when there is none
StoredWeight(info, name) == IF name \in DOMAIN info THEN info[name].tot_weight ELSE Fin(0)
StoredLike(info, name) == IF name \in DOMAIN info THEN info[name].tot_like ELSE Fin(0)
\* the names of the supervision outputs of the examples
OutputNames == {"output", "output2"}
\* this step is a call of Compute
ComputeStep == prob = "constructed" /\ pc = "idle" /\ pc' = "returned"
\* this step is a call of Reset
ResetStep == last_call # "Reset" /\ last_call' = "Reset"

\* C27: a constructor and Reset leave no totals and a counter of 0; every
\* Compute adds, for every output name, the sum over its supervision outputs of
\* that name of (objective scale of the name, 1 if none) * the driver's weight
\* to tot_weight and the same sum of scaled driver objf values to tot_like, and
\* adds the number of supervision outputs to num_minibatches_processed_: so
\* the totals are the sums, and the counter the number of outputs, since the
\* last Reset.
C27_TotalsAreSums ==
  [][/\ (ResetStep \/ last_call' = "constructor") =>
          /\ \A name \in OutputNames :
               /\ StoredWeight(objf_info_', name) = Fin(0)
               /\ StoredLike(objf_info_', name) = Fin(0)
          /\ num_minibatches_processed_' = 0
     /\ ComputeStep =>
          /\ \A name \in OutputNames :
               LET scale == IF name \in DOMAIN objective_scales_
                            THEN objective_scales_[name] ELSE 1
               IN  /\ StoredWeight(objf_info_', name) =
                        FAdd(StoredWeight(objf_info_, name),
                             ScaledSum(pushed', name, scale, "weight"))
                   /\ StoredLike(objf_info_', name) =
                        FAdd(StoredLike(objf_info_, name),
                             ScaledSum(pushed', name, scale, "objf"))
                   /\ name \in DOMAIN objf_info_' <=>
                        \/ name \in DOMAIN objf_info_
                        \/ \E i \in DOMAIN pushed' : pushed'[i].name = name
          /\ num_minibatches_processed_' = num_minibatches_processed_ + Len(pushed')
     /\ (~ComputeStep /\ ~ResetStep /\ last_call' # "constructor") =>
          UNCHANGED <<objf_info_, num_minibatches_processed_>>]_vars
\* the second Compute since the last Reset, each for an example with one
\* output whose name has the objective scale 2
C27_Witness ==
  /\ prob = "constructed" /\ pc = "returned" /\ last_call = "Compute"
  /\ objective_scales_ # NoScales /\ Len(pushed) = 1
  /\ num_minibatches_processed_ = 2
  /\ weight = Fin(MaxWeight * MaxFrames)
  /\ objf_info_ # NoInfo
  /\ StoredWeight(objf_info_, "output").k = "fin"
  /\ StoredWeight(objf_info_, "output").v > 2 * MaxWeight * MaxFrames

\* the supervision outputs of the example of this call, as a network with the
\* parameters it was constructed with computes them
FreshOutputs(c, given, garbage, two) ==
  IF two
  THEN <<Output("output2", OtherCall(Const(1, NumPdfs, 1)), Unset, Const(1, NumPdfs, 1)),
         Output("output", [c EXCEPT !.nnet_output = given], garbage,
                Const(c.nnet_output.nr, NumPdfs, 1))>>
  ELSE <<Output("output", [c EXCEPT !.nnet_output = given], garbage,
                Const(c.nnet_output.nr, NumPdfs, 1))>>
\* objf_info_ of a freshly constructed object after Compute on that example
FreshStatistics(c, given, garbage, two) ==
  ProcessOutputs(Members(nnet_config_, chain_config_, objective_scales_, sil_indices_),
                 Progress(NoInfo, 0, <<>>, <<>>),
                 FreshOutputs(c, given, garbage, two)).objf_info
\* the names GetObjective may be asked for
ObjectiveNames == OutputNames \cup {XentName(n) : n \in OutputNames}

\* C28: after Reset, until the next Compute, num_minibatches_processed_ is 0,
\* GetObjective returns NULL for every name, PrintTotalStats returns false and
\* the derivative network, when there is one, is all-zero; and the Compute
\* that follows Reset leaves the statistics that Compute on the same example
\* leaves in a freshly constructed object.
C28_ResetIsFresh ==
  [][/\ last_call' = "Reset" =>
          /\ num_minibatches_processed_' = 0
          /\ \A name \in ObjectiveNames : GetObjective(objf_info_', name) = "NULL"
          /\ ~PrintTotalStats(objf_info_')
          /\ deriv_nnet_' = "own" => deriv_' = "zero"
          /\ deriv_nnet_' = "nnet" => nnet_' = "zeroed"
     /\ (ComputeStep /\ last_call = "Reset") =>
          \E given \in Scores(nnet_output'.nr, NumPdfs), garbage \in Garbage \cup {Unset} :
            FreshStatistics(TheCall', given, garbage, Len(pushed') = 2) = objf_info_']_vars
\* Compute after Reset on an object built by the constructor taking Nnet *:
\* the network computes an all-zero output and the regulariser's term is 0
C28_Failing ==
  /\ prob = "constructed" /\ ctor = "second" /\ pc = "returned"
  /\ last_call = "Compute" /\ nnet_ = "zeroed"
  /\ chain_config_.l2_regularize # 0 /\ IsZero(nnet_output)
  /\ num_minibatches_processed_ = 1
  /\ objf_info_ # NoInfo
  /\ objf_info_ # FreshStatistics(TheCall, Ramp(nnet_output.nr, NumPdfs, 0), Unset, FALSE)
  /\ objf_info_ # FreshStatistics(TheCall, Const(nnet_output.nr, NumPdfs, 1), Unset, FALSE)

\* the operations the computer was told, in order
Ops(log) == [i \in DOMAIN log |-> log[i].op]
\* n times AcceptInput
AcceptInputTimes(n) == [i \in 1..n |-> "AcceptInput"]

\* C29: in one Compute the computer is told, in this order: AcceptInputs, the
\* forward Run, then (compute_deriv set) one AcceptInput per supervision
\* output, in the order of the outputs, each with the derivative of its
\* output, and last the backward Run; with compute_deriv false Run is executed
\* exactly once and no derivative is handed to the computer. The objective of
\* every supervision output has been computed in either case.
C29_ComputeOrder ==
  (prob = "constructed" /\ pc = "returned") =>
    /\ pushed # <<>>
    /\ num_minibatches_processed_ >= Len(pushed)
    /\ nnet_config_.compute_deriv =>
         /\ Ops(computer) = <<"AcceptInputs", "Run">> \o AcceptInputTimes(Len(pushed))
                              \o <<"Run">>
         /\ \A i \in DOMAIN pushed : computer[2 + i].name = pushed[i].name
         /\ computer[2 + Len(pushed)].deriv =
              IF "output" \in DOMAIN objective_scales_
              THEN Scale(nnet_output_deriv, objective_scales_["output"])
              ELSE nnet_output_deriv
    /\ ~nnet_config_.compute_deriv => Ops(computer) = <<"AcceptInputs", "Run">>
\* Compute with compute_deriv set, for an example with two outputs
C29_Witness ==
  /\ prob = "constructed" /\ pc = "returned" /\ nnet_config_.compute_deriv
  /\ Len(pushed) = 2 /\ Len(computer) = 5
  /\ computer[3].name = "output2" /\ computer[4].name = "output"
  /\ computer[4].deriv # NoMatrix /\ ~IsZero(computer[4].deriv)
  /\ computer[5] = ComputerRun

\* the sum over these outputs of tot_like plus the accumulated auxiliary
\* objectives of the output
RECURSIVE SumOfTotals(_, _)
SumOfTotals(info, names) ==
  IF names = {} THEN Fin(0)
  ELSE FAdd(SumOfTotals(info, names \ {CHOOSE n \in names : TRUE}),
            FAdd(info[CHOOSE n \in names : TRUE].tot_like,
                 ValuesSum(info[CHOOSE n \in names : TRUE].tot_aux_objfs)))

\* the sum of tot_weight over these outputs
RECURSIVE SumOfWeights(_, _)
SumOfWeights(info, names) ==
  IF names = {} THEN Fin(0)
  ELSE FAdd(info[CHOOSE n \in names : TRUE].tot_weight,
            SumOfWeights(info, names \ {CHOOSE n \in names : TRUE}))

\* C30: GetTotalObjective returns the pair whose second component is the sum
\* of tot_weight over all outputs and whose first component is the sum over
\* all outputs of tot_like plus the output's accumulated auxiliary objectives;
\* with one output, first / second is the per-frame objective PrintTotalStats
\* reports for it.
C30_TotalObjective ==
  (prob = "constructed" /\ objf_info_ # NoInfo) =>
    /\ GetTotalObjective(objf_info_)[2] = SumOfWeights(objf_info_, DOMAIN objf_info_)
    /\ GetTotalObjective(objf_info_)[1] = QOf(SumOfTotals(objf_info_, DOMAIN objf_info_))
    /\ \A n \in DOMAIN objf_info_ :
         DOMAIN objf_info_ = {n} =>
           QDiv(GetTotalObjective(objf_info_)[1], QOf(GetTotalObjective(objf_info_)[2]))
             = TotObjfPrinted(objf_info_[n])
\* one output with tot_weight = 2 and a regulariser term: the first component
\* returned is tot_like / 2 + 2 * (sum of the auxiliary objectives), which is
\* not tot_like + (sum of the auxiliary objectives)
C30_Failing ==
  /\ prob = "constructed" /\ pc = "returned" /\ DOMAIN objf_info_ = {"output"}
  /\ objf_info_["output"].tot_weight = Fin(2)
  /\ objf_info_["output"].tot_like.k = "fin"
  /\ ValuesSum(objf_info_["output"].tot_aux_objfs).k = "fin"
  /\ ValuesSum(objf_info_["output"].tot_aux_objfs).v # 0
  /\ GetTotalObjective(objf_info_)[1]
       = Quotient(objf_info_["output"].tot_like.v
                    + 4 * ValuesSum(objf_info_["output"].tot_aux_objfs).v, 2)
  /\ GetTotalObjective(objf_info_)[1] # QOf(SumOfTotals(objf_info_, {"output"}))
====
